---- MODULE Spec2Model ----
(***************************************************************************)
(* Wotan routability analysis: the per-connection analysis                 *)
(* (analyze_connection and the distance passes it runs on a thread's       *)
(* private arena) and the two global phases ENUMERATE / PROBABILITY that    *)
(* worker threads run over the shared Analysis_Results.                     *)
(*                                                                         *)
(* Probabilities and demands are fixed-point integers: a demand d stands   *)
(* for d / DemandUnit and a probability p for p / ProbUnit.                *)
(***************************************************************************)
EXTENDS Integers, Sequences, FiniteSets, TLC

(***************************************************************************)
(* Program constants                                                       *)
(***************************************************************************)
UNDEFINED == -1

\* PATH_FLEXIBILITY_FACTOR 1.3 as the fraction FlexNum / FlexDen
FlexNum == 13
FlexDen == 10

CORE_OFFSET == 3

\* e_topological_mode
ENUMERATE == "ENUMERATE"
PROBABILITY == "PROBABILITY"
TopologicalModes == {ENUMERATE, PROBABILITY}

\* e_probability_mode
PROPAGATE == "PROPAGATE"
CUTLINE == "CUTLINE"
CUTLINE_SIMPLE == "CUTLINE_SIMPLE"
CUTLINE_RECURSIVE == "CUTLINE_RECURSIVE"
RELIABILITY_POLYNOMIAL == "RELIABILITY_POLYNOMIAL"
ProbabilityModes ==
    {PROPAGATE, CUTLINE, CUTLINE_SIMPLE, CUTLINE_RECURSIVE, RELIABILITY_POLYNOMIAL}

\* e_traversal_dir
FORWARD_TRAVERSAL == "FORWARD_TRAVERSAL"
BACKWARD_TRAVERSAL == "BACKWARD_TRAVERSAL"

(***************************************************************************)
(* Bounds of the model                                                     *)
(***************************************************************************)
\* user_opts->num_threads
NumThreads == 2
\* how many times in a row a repeated-call run analyzes its connection
MaxCalls == 2
\* the largest number of connections of a length in a run of the queue set-up
MaxConns == 21
\* how many probabilities such a run pushes
MaxPushes == 3
\* the largest numbers of routing nodes, of routing nodes of high demand and of
\* other nodes in a run of node_demand_metric alone
MaxRoutingNodes == 41
MaxHighDemand == 3
MaxOtherNodes == 2
\* the largest grid and the largest length in a run of the enumeration of
\* destination tiles alone
MaxGridSize == 5
MaxLength == 2
\* the largest weight of a routing node and the largest maximum path weight in a
\* run of the distance passes alone
MaxWeight == 3
MaxPathWeight == 3

(***************************************************************************)
(* The routing resource graph the engine is given: two logic tiles (1,1)   *)
(* and (2,1) of a 4 x 3 grid, each with one SOURCE, one SINK and one IPIN, *)
(* and three channel nodes.  Nodes 7 and 8 lie on a cycle.                 *)
(***************************************************************************)
grid_size_x == 4
grid_size_y == 3

Nodes == 1..9

rr_type ==
    <<"SOURCE", "SINK", "IPIN", "SOURCE", "SINK", "IPIN", "CHANX", "CHANX", "CHANY">>

xlow  == <<1, 1, 1, 2, 2, 2, 1, 1, 0>>
xhigh == <<1, 1, 1, 2, 2, 2, 2, 2, 0>>
ylow  == <<1, 1, 1, 1, 1, 1, 1, 0, 1>>
yhigh == <<1, 1, 1, 1, 1, 1, 1, 0, 1>>

out_edges ==
    << <<7, 8, 9>>, <<>>, <<2>>, <<7, 8>>, <<>>, <<5>>, <<3, 6, 8>>, <<6, 7>>, <<7>> >>

in_edges ==
    << <<>>, <<3>>, <<7>>, <<>>, <<6>>, <<7, 8>>, <<1, 4, 8, 9>>, <<1, 4, 7>>, <<1>> >>

IsRoutingNode(n) == rr_type[n] \in {"CHANX", "CHANY"}

\* node weights the graph reader may hand over: <<SOURCE weight, SINK weight,
\* weight of node 7, of node 8, of node 9>>; pins have weight 0
WeightChoices ==
    { <<0, 0, 1, 1, 1>>, <<0, 0, 1, 2, 2>>, <<0, 0, 2, 1, 1>>,
      <<0, 1, 1, 1, 1>>, <<1, 0, 1, 1, 2>>, <<1, 1, 1, 2, 1>> }

NodeWeights(c) ==
    [n \in Nodes |->
        CASE rr_type[n] = "SOURCE" -> c[1]
          [] rr_type[n] = "SINK"   -> c[2]
          [] rr_type[n] = "IPIN"   -> 0
          [] n = 7 -> c[3]
          [] n = 8 -> c[4]
          [] OTHER -> c[5]]

\* analysis_settings->get_max_path_weight(conn_length) for the one length in use
MaxPathWeightChoices == {1, 3}

(***************************************************************************)
(* SS_Distances (one per node, per thread)                                 *)
(***************************************************************************)
SS_Distances ==
    [source_distance |-> UNDEFINED, sink_distance |-> UNDEFINED,
     source_hops |-> UNDEFINED, sink_hops |-> UNDEFINED,
     visited_from_source |-> FALSE, visited_from_sink |-> FALSE,
     visited_from_source_hops |-> FALSE, visited_from_sink_hops |-> FALSE]

\* SS_Distances::clear
ss_clear(d) == SS_Distances

\* SS_Distances::is_legal
is_legal(d, node_weight, max_path_weight) ==
    /\ d.visited_from_source
    /\ d.visited_from_sink
    /\ d.source_distance + d.sink_distance - node_weight <= max_path_weight

\* a freshly allocated t_ss_distances
alloc_ss_distances == [n \in Nodes |-> SS_Distances]

Abs(i) == IF i < 0 THEN -i ELSE i
Max(a, b) == IF a >= b THEN a ELSE b
Min(a, b) == IF a <= b THEN a ELSE b

(***************************************************************************)
(* My_Bounded_Priority_Queue: a sequence of <<item, weight>>; top is the   *)
(* earliest pushed entry of least weight.                                  *)
(***************************************************************************)
PQ_min_weight(pq) ==
    CHOOSE w \in {pq[i][2] : i \in 1..Len(pq)} :
        \A i \in 1..Len(pq) : w <= pq[i][2]

PQ_top_index(pq) ==
    CHOOSE i \in 1..Len(pq) :
        /\ pq[i][2] = PQ_min_weight(pq)
        /\ \A j \in 1..(i - 1) : pq[j][2] # PQ_min_weight(pq)

PQ_top(pq) == pq[PQ_top_index(pq)][1]
PQ_top_weight(pq) == pq[PQ_top_index(pq)][2]
PQ_pop(pq) ==
    [i \in 1..(Len(pq) - 1) |-> IF i < PQ_top_index(pq) THEN pq[i] ELSE pq[i + 1]]
\* push fails when the weight exceeds the bound the queue was built with
PQ_push_fails(weight, max_weight) == weight > max_weight \/ weight < 0
PQ_push(pq, item, weight) == Append(pq, <<item, weight>>)

(***************************************************************************)
(* Distance pass                                                           *)
(***************************************************************************)
\* the lower bound on the weight still needed to reach tile (destx, desty)
remaining_lower_bound(node_ind, destx, desty) ==
    LET spans_y == xlow[node_ind] = xhigh[node_ind]
        x_diff ==
            IF spans_y THEN Abs(destx - xlow[node_ind])
            ELSE IF destx <= xhigh[node_ind] /\ destx >= xlow[node_ind] THEN 0
            ELSE IF destx > xhigh[node_ind] THEN destx - xhigh[node_ind]
            ELSE xlow[node_ind] - destx
        y_diff ==
            IF spans_y
            THEN IF desty <= yhigh[node_ind] /\ desty >= ylow[node_ind] THEN 0
                 ELSE IF desty > yhigh[node_ind] THEN desty - yhigh[node_ind]
                 ELSE ylow[node_ind] - desty
            ELSE IF destx <= xhigh[node_ind] /\ destx >= xlow[node_ind]
                 THEN Abs(desty - ylow[node_ind]) - 1
                 ELSE Abs(desty - ylow[node_ind])
    IN  Max(x_diff + y_diff - 1, 0)

\* the node has a span in both the x and y directions (an error)
node_spans_both(node_ind) ==
    xlow[node_ind] # xhigh[node_ind] /\ ylow[node_ind] # yhigh[node_ind]

\* a variant that gives every node a chance
node_taken_to_have_chance(node_ind, destx, desty, node_path_weight, max_path_weight) == TRUE

node_has_chance_to_reach_destination(node_ind, destx, desty, node_path_weight, max_path_weight) ==
    node_path_weight + remaining_lower_bound(node_ind, destx, desty) <= max_path_weight

\* a variant that leaves the base weight out
path_weight_without_base(base_weight, node_weight) == node_weight

\* put_children_on_pq_and_set_ss_distance: the path weight of a child
path_weight_of_child(base_weight, node_weight) == base_weight + node_weight

\* a variant that also clears the mark of the forward pass
unmark_from_both(d) ==
    [d EXCEPT !.sink_distance = UNDEFINED, !.visited_from_sink = FALSE,
              !.visited_from_source = FALSE]

\* a variant that leaves the child as it was marked
left_marked_from_sink(d) == d

\* put_children_on_pq_and_set_ss_distance: a child that is not legal on the
\* backward traversal is un-marked
unmark_from_sink(d) == [d EXCEPT !.sink_distance = UNDEFINED, !.visited_from_sink = FALSE]

\* One pass works on st = [ss, nodes_visited, pq, err]: the thread's distances,
\* its list of visited nodes, the pass's queue, and the error thrown ("none" if none).
RECURSIVE put_children_from(_, _, _, _, _, _, _, _)
put_children_from(iedge, edge_list, base_weight, st, max_path_weight, traversal_dir, to_node_ind, wt) ==
    IF iedge > Len(edge_list) \/ st.err # "none" THEN st
    ELSE
      LET node_ind == edge_list[iedge]
          d == st.ss[node_ind]
          node_weight == wt[node_ind]
          path_weight == path_weight_of_child(base_weight, node_weight)
          rest(s) == put_children_from(iedge + 1, edge_list, base_weight, s,
                                       max_path_weight, traversal_dir, to_node_ind, wt)
          pushed(s) ==
              IF PQ_push_fails(path_weight, max_path_weight)
              THEN [s EXCEPT !.err = "pq_push"]
              ELSE rest([s EXCEPT !.pq = PQ_push(s.pq, node_ind, path_weight)])
      IN
        IF traversal_dir = FORWARD_TRAVERSAL
        THEN IF d.visited_from_source THEN rest(st)
             ELSE IF node_spans_both(node_ind)
             THEN [st EXCEPT !.err = "node_spans_both"]
             ELSE IF ~node_has_chance_to_reach_destination(
                          node_ind, xlow[to_node_ind], ylow[to_node_ind],
                          path_weight, max_path_weight)
             THEN rest(st)
             ELSE pushed([st EXCEPT !.ss[node_ind] =
                             [d EXCEPT !.source_distance = path_weight,
                                       !.visited_from_source = TRUE]])
        ELSE IF d.visited_from_sink THEN rest(st)
             ELSE IF ~is_legal([d EXCEPT !.sink_distance = path_weight,
                                         !.visited_from_sink = TRUE],
                               node_weight, max_path_weight)
             THEN rest([st EXCEPT !.ss[node_ind] =
                           unmark_from_sink([d EXCEPT !.sink_distance = path_weight,
                                                      !.visited_from_sink = TRUE])])
             ELSE pushed([st EXCEPT !.ss[node_ind] =
                             [d EXCEPT !.sink_distance = path_weight,
                                       !.visited_from_sink = TRUE]])

put_children_on_pq_and_set_ss_distance(edge_list, base_weight, st, max_path_weight, traversal_dir, to_node_ind, wt) ==
    IF xlow[to_node_ind] # xhigh[to_node_ind] \/ ylow[to_node_ind] # yhigh[to_node_ind]
    THEN [st EXCEPT !.err = "dest_not_single_tile"]
    ELSE put_children_from(1, edge_list, base_weight, st, max_path_weight,
                           traversal_dir, to_node_ind, wt)

\* a variant whose forward pass starts the source at distance 1
set_node_distances_begin_at_one(st, from_node_ind, max_path_weight, traversal_dir) ==
    LET start == IF traversal_dir = FORWARD_TRAVERSAL THEN 1 ELSE 0
    IN  IF PQ_push_fails(start, max_path_weight)
        THEN [st EXCEPT !.pq = <<>>, !.err = "pq_push"]
        ELSE [st EXCEPT
                !.pq = PQ_push(<<>>, from_node_ind, start),
                !.ss[from_node_ind] =
                    IF traversal_dir = FORWARD_TRAVERSAL
                    THEN [@ EXCEPT !.source_distance = start, !.visited_from_source = TRUE]
                    ELSE [@ EXCEPT !.sink_distance = 0, !.visited_from_sink = TRUE]]

\* set_node_distances up to its loop: the queue holds the 'from' node, which is marked
set_node_distances_begin(st, from_node_ind, max_path_weight, traversal_dir) ==
    IF PQ_push_fails(0, max_path_weight)
    THEN [st EXCEPT !.pq = <<>>, !.err = "pq_push"]
    ELSE [st EXCEPT
            !.pq = PQ_push(<<>>, from_node_ind, 0),
            !.ss[from_node_ind] =
                IF traversal_dir = FORWARD_TRAVERSAL
                THEN [@ EXCEPT !.source_distance = 0, !.visited_from_source = TRUE]
                ELSE [@ EXCEPT !.sink_distance = 0, !.visited_from_sink = TRUE]]

\* one iteration of the loop of set_node_distances
set_node_distances_iter(st, to_node_ind, max_path_weight, traversal_dir, wt) ==
    LET node_ind == PQ_top(st.pq)
        node_path_weight == PQ_top_weight(st.pq)
        popped == [st EXCEPT !.pq = PQ_pop(st.pq)]
        edge_list == IF traversal_dir = FORWARD_TRAVERSAL
                     THEN out_edges[node_ind] ELSE in_edges[node_ind]
        put == put_children_on_pq_and_set_ss_distance(
                   edge_list, node_path_weight, popped, max_path_weight,
                   traversal_dir, to_node_ind, wt)
    IN  IF put.err # "none" THEN put
        ELSE [put EXCEPT !.nodes_visited = Append(@, node_ind)]

RECURSIVE set_node_distances_loop(_, _, _, _, _)
set_node_distances_loop(st, to_node_ind, max_path_weight, traversal_dir, wt) ==
    IF st.err # "none" \/ Len(st.pq) = 0 THEN st
    ELSE set_node_distances_loop(
             set_node_distances_iter(st, to_node_ind, max_path_weight, traversal_dir, wt),
             to_node_ind, max_path_weight, traversal_dir, wt)

set_node_distances(st, from_node_ind, to_node_ind, max_path_weight, traversal_dir, wt) ==
    IF st.err # "none" THEN st
    ELSE set_node_distances_loop(
             set_node_distances_begin(st, from_node_ind, max_path_weight, traversal_dir),
             to_node_ind, max_path_weight, traversal_dir, wt)

\* a variant that rounds the product down
FloorFlex(min_dist) ==
    IF min_dist >= 0
    THEN (min_dist * FlexNum) \div FlexDen
    ELSE -(((-min_dist) * FlexNum + FlexDen - 1) \div FlexDen)

\* (int)ceil(min_dist * PATH_FLEXIBILITY_FACTOR)
CeilFlex(min_dist) ==
    IF min_dist >= 0
    THEN (min_dist * FlexNum + FlexDen - 1) \div FlexDen
    ELSE -(((-min_dist) * FlexNum) \div FlexDen)

\* a variant that takes the two distances to agree
distances_taken_to_agree(min_dist_sink, min_dist_source) == TRUE

\* the comparison of the two minimum distances
distances_agree(min_dist_sink, min_dist_source) == min_dist_sink = min_dist_source

\* Returns st with the fields max_path_weight (the adjusted one) and min_dist.
get_ss_distances_and_adjust_max_path_weight(st, source_node_ind, sink_node_ind, max_path_weight, wt) ==
    LET fwd == set_node_distances(st, source_node_ind, sink_node_ind, max_path_weight,
                                  FORWARD_TRAVERSAL, wt)
        bwd == set_node_distances(fwd, sink_node_ind, source_node_ind, max_path_weight,
                                  BACKWARD_TRAVERSAL, wt)
        min_dist_sink == bwd.ss[sink_node_ind].source_distance
        min_dist_source == bwd.ss[source_node_ind].sink_distance
    IN  IF bwd.err # "none"
        THEN [ss |-> bwd.ss, nodes_visited |-> bwd.nodes_visited, err |-> bwd.err,
              max_path_weight |-> max_path_weight, min_dist |-> UNDEFINED]
        ELSE IF ~distances_agree(min_dist_sink, min_dist_source)
        THEN [ss |-> bwd.ss, nodes_visited |-> bwd.nodes_visited,
              err |-> "dist_mismatch",
              max_path_weight |-> max_path_weight, min_dist |-> UNDEFINED]
        ELSE [ss |-> bwd.ss, nodes_visited |-> bwd.nodes_visited, err |-> "none",
              max_path_weight |-> Min(CeilFlex(min_dist_sink), max_path_weight),
              min_dist |-> min_dist_sink]


(***************************************************************************)
(* Hops pass                                                               *)
(***************************************************************************)
\* The loop body of set_node_hops over one node's edges; hs = [ss, Q].
RECURSIVE set_node_hops_children(_, _, _, _, _, _, _)
set_node_hops_children(iedge, edge_list, node_hops, hs, max_path_weight, traversal_dir, wt) ==
    IF iedge > Len(edge_list) THEN hs
    ELSE
      LET child_ind == edge_list[iedge]
          d == hs.ss[child_ind]
          already_visited == IF traversal_dir = FORWARD_TRAVERSAL
                             THEN d.visited_from_source_hops
                             ELSE d.visited_from_sink_hops
          rest(h) == set_node_hops_children(iedge + 1, edge_list, node_hops, h,
                                            max_path_weight, traversal_dir, wt)
      IN  IF ~is_legal(d, wt[child_ind], max_path_weight) \/ already_visited
          THEN rest(hs)
          ELSE rest([ss |-> [hs.ss EXCEPT ![child_ind] =
                               IF traversal_dir = FORWARD_TRAVERSAL
                               THEN [d EXCEPT !.visited_from_source_hops = TRUE,
                                              !.source_hops = node_hops + 1]
                               ELSE [d EXCEPT !.visited_from_sink_hops = TRUE,
                                              !.sink_hops = node_hops + 1]],
                     Q |-> Append(hs.Q, child_ind)])

RECURSIVE set_node_hops_loop(_, _, _, _)
set_node_hops_loop(hs, max_path_weight, traversal_dir, wt) ==
    IF Len(hs.Q) = 0 THEN hs.ss
    ELSE
      LET node_ind == Head(hs.Q)
          marked == [hs.ss EXCEPT ![node_ind] =
                        IF traversal_dir = FORWARD_TRAVERSAL
                        THEN [@ EXCEPT !.visited_from_source_hops = TRUE]
                        ELSE [@ EXCEPT !.visited_from_sink_hops = TRUE]]
          node_hops == IF traversal_dir = FORWARD_TRAVERSAL
                       THEN marked[node_ind].source_hops
                       ELSE marked[node_ind].sink_hops
          edge_list == IF traversal_dir = FORWARD_TRAVERSAL
                       THEN out_edges[node_ind] ELSE in_edges[node_ind]
      IN  set_node_hops_loop(
              set_node_hops_children(1, edge_list, node_hops,
                                     [ss |-> marked, Q |-> Tail(hs.Q)],
                                     max_path_weight, traversal_dir, wt),
              max_path_weight, traversal_dir, wt)

\* returns the distances with the hops of the legal subgraph filled in
set_node_hops(ss, from_node_ind, max_path_weight, traversal_dir, wt) ==
    set_node_hops_loop(
        [ss |-> [ss EXCEPT ![from_node_ind] =
                    IF traversal_dir = FORWARD_TRAVERSAL
                    THEN [@ EXCEPT !.source_hops = 0]
                    ELSE [@ EXCEPT !.sink_hops = 0]],
         Q |-> <<from_node_ind>>],
        max_path_weight, traversal_dir, wt)

(***************************************************************************)
(* Cleanup                                                                 *)
(***************************************************************************)
\* Node_Topological_Info of one node: the visited mark and the two bucket arrays,
\* indexed by path weight 0 .. MaxBucket
MaxBucket == 3
Buckets == 0..MaxBucket
NoBuckets == [k \in Buckets |-> 0]
Node_Topological_Info ==
    [was_visited |-> FALSE, source_buckets |-> NoBuckets, sink_buckets |-> NoBuckets]

\* Node_Topological_Info::clear
topo_clear(t) == Node_Topological_Info

alloc_node_topo_inf == [n \in Nodes |-> Node_Topological_Info]

\* a variant that tests only the forward flag
needs_clear_forward_only(d) == d.visited_from_source

\* clean_ss_distances clears a listed node that either pass has marked
needs_clear(d) == d.visited_from_source \/ d.visited_from_sink

RECURSIVE clean_ss_distances_from(_, _, _)
clean_ss_distances_from(inode, ss, nodes_visited) ==
    IF inode > Len(nodes_visited) THEN ss
    ELSE LET node_ind == nodes_visited[inode]
         IN  clean_ss_distances_from(
                 inode + 1,
                 IF needs_clear(ss[node_ind])
                 THEN [ss EXCEPT ![node_ind] = ss_clear(@)]
                 ELSE ss,
                 nodes_visited)

\* a variant that resets the distances of the listed nodes but leaves their marks
clean_ss_distances_leaving_marks(ss, nodes_visited) ==
    [n \in Nodes |->
        IF n \in {nodes_visited[i] : i \in 1..Len(nodes_visited)}
        THEN [ss[n] EXCEPT !.source_distance = UNDEFINED, !.sink_distance = UNDEFINED]
        ELSE ss[n]]

clean_ss_distances(ss, nodes_visited) == clean_ss_distances_from(1, ss, nodes_visited)

RECURSIVE clean_node_topo_inf_from(_, _, _)
clean_node_topo_inf_from(inode, node_topo_inf, nodes_visited) ==
    IF inode > Len(nodes_visited) THEN node_topo_inf
    ELSE LET node_ind == nodes_visited[inode]
         IN  clean_node_topo_inf_from(
                 inode + 1,
                 IF node_topo_inf[node_ind].was_visited
                 THEN [node_topo_inf EXCEPT ![node_ind] = topo_clear(@)]
                 ELSE node_topo_inf,
                 nodes_visited)

clean_node_topo_inf(node_topo_inf, nodes_visited) ==
    clean_node_topo_inf_from(1, node_topo_inf, nodes_visited)

\* the thread's arena [ss, node_topo_inf, nodes_visited] after cleaning
clean_node_data_structs(ar) ==
    [ss |-> clean_ss_distances(ar.ss, ar.nodes_visited),
     node_topo_inf |-> clean_node_topo_inf(ar.node_topo_inf, ar.nodes_visited),
     nodes_visited |-> <<>>]

(***************************************************************************)
(* Fixed-point units                                                       *)
(***************************************************************************)
\* a demand d stands for d / DemandUnit
DemandUnit == 8
\* a probability p stands for p / ProbUnit
ProbUnit == 1024

RECURSIVE SumSeq(_)
SumSeq(q) == IF Len(q) = 0 THEN 0 ELSE Head(q) + SumSeq(Tail(q))

RECURSIVE SetToSeq(_)
SetToSeq(S) ==
    IF S = {} THEN <<>>
    ELSE LET m == CHOOSE x \in S : \A y \in S : x <= y
         IN  <<m>> \o SetToSeq(S \ {m})

(***************************************************************************)
(* Topological traversal driver and the enumeration model                 *)
(***************************************************************************)
\* the edges the traversal expands along / the edges it arrives by
ChildEdges(traversal_dir) == IF traversal_dir = FORWARD_TRAVERSAL THEN out_edges ELSE in_edges
ParentEdges(traversal_dir) == IF traversal_dir = FORWARD_TRAVERSAL THEN in_edges ELSE out_edges

SeqRange(q) == {q[i] : i \in 1..Len(q)}

\* The nodes the driver pops: 'from' and every node reached from it over legal children.
RECURSIVE LegalReach(_, _, _, _, _)
LegalReach(R, ss, traversal_dir, max_path_weight, wt) ==
    LET more == {c \in Nodes :
                    /\ c \notin R
                    /\ is_legal(ss[c], wt[c], max_path_weight)
                    /\ \E p \in R : c \in SeqRange(ChildEdges(traversal_dir)[p])}
    IN  IF more = {} THEN R
        ELSE LegalReach(R \cup more, ss, traversal_dir, max_path_weight, wt)

\* The content of bucket k of node n once the traversal from 'from' is done: what
\* the parents' buckets fold into it, each parent's share multiplied by num[n] / den.
\* sw[n] is the step a node adds to the bucket index (its weight, or 1 hop).
RECURSIVE Bucket(_, _, _, _, _, _, _, _, _)
Bucket(n, k, from, R, sw, traversal_dir, start, num, den) ==
    IF n = from THEN (IF k = 0 THEN start ELSE 0)
    ELSE IF k < sw[n] THEN 0
    ELSE LET parents == ParentEdges(traversal_dir)[n]
         IN  SumSeq([i \in 1..Len(parents) |->
                 IF parents[i] \in R
                 THEN (num[n] * Bucket(parents[i], k - sw[n], from, R, sw,
                                       traversal_dir, start, num, den)) \div den
                 ELSE 0])

\* do_topological_traversal on the arena ar = [ss, node_topo_inf, nodes_visited]:
\* every legal node is popped once, marked visited and appended to nodes_visited,
\* and its bucket array of the traversal's side is filled up to max_path_weight.
do_topological_traversal(ar, from, traversal_dir, max_path_weight, wt, sw, start, num, den) ==
    LET R == LegalReach({from}, ar.ss, traversal_dir, max_path_weight, wt)
        filled(n) == [k \in Buckets |->
                        IF k <= max_path_weight
                        THEN Bucket(n, k, from, R, sw, traversal_dir, start, num, den)
                        ELSE 0]
    IN  [ss |-> ar.ss,
         node_topo_inf |->
             [n \in Nodes |->
                 IF n \notin R THEN ar.node_topo_inf[n]
                 ELSE IF traversal_dir = FORWARD_TRAVERSAL
                 THEN [ar.node_topo_inf[n] EXCEPT !.was_visited = TRUE,
                                                  !.source_buckets = filled(n)]
                 ELSE [ar.node_topo_inf[n] EXCEPT !.was_visited = TRUE,
                                                  !.sink_buckets = filled(n)]],
         nodes_visited |-> ar.nodes_visited \o SetToSeq(R)]

AllOnes == [n \in Nodes |-> 1]

\* Node_Buckets::get_num_paths at the source: the sink buckets up to
\* max_path_weight - source weight
get_num_paths(t, node_weight, max_path_weight) ==
    SumSeq([i \in 1..(MaxBucket + 1) |->
               IF i - 1 <= max_path_weight - node_weight THEN t.sink_buckets[i - 1] ELSE 0])

\* the (scaled) number of paths through a node: the convolution of its two bucket
\* arrays over the totals k + k2 - node_weight <= max_path_weight
paths_through(t, node_weight, max_path_weight) ==
    SumSeq([i \in 1..((MaxBucket + 1) * (MaxBucket + 1)) |->
               LET k == (i - 1) \div (MaxBucket + 1)
                   k2 == (i - 1) % (MaxBucket + 1)
               IN  IF k + k2 - node_weight <= max_path_weight
                   THEN t.source_buckets[k] * t.sink_buckets[k2]
                   ELSE 0])

(***************************************************************************)
(* The block type of the logic tiles and the settings of the run          *)
(***************************************************************************)
\* class_inf of the fill type: class 0 holds the input pin 0, class 1 the five
\* equivalent output pins 1..5
class_inf ==
    [c \in 0..1 |-> IF c = 0 THEN [pin_type |-> "RECEIVER", pinlist |-> <<0>>]
                            ELSE [pin_type |-> "DRIVER", pinlist |-> <<1, 2, 3, 4, 5>>]]
is_global_pin == [pin \in 0..5 |-> FALSE]

\* ptc of a node: the class of a SOURCE / SINK, the pin of an IPIN
ptc_num == <<1, 0, 0, 1, 0, 0, 0, 0, 0>>

get_num_pins(c) == Len(class_inf[c].pinlist)

\* the probability of the input pin (in DemandUnit), a setting of the run
VARIABLE input_pin_probability

\* analysis_settings->pin_probabilities (in DemandUnit): the output pins are
\* equally likely
pin_probabilities == [pin \in 0..5 |-> IF pin = 0 THEN input_pin_probability ELSE 1]

\* analysis_settings->length_probabilities (in DemandUnit), lengths 0 .. max_connection_length
max_connection_length == 1
length_probabilities == [l \in 0..max_connection_length |-> IF l = 0 THEN 0 ELSE DemandUnit]

\* user_opts->demand_multiplier
demand_multiplier == 1

\* RR_Node::get_demand: the fixed demand of routing nodes if the user gave one
get_demand(n, dem, urnd) ==
    IF urnd # UNDEFINED /\ IsRoutingNode(n) THEN urnd ELSE dem[n]

\* get_node_demand_adjusted_for_path_history: [value, err]
get_node_demand_adjusted_for_path_history(node_ind, source_ind, sink_ind, dem, hist, urnd) ==
    LET adjusted_node_demand == get_demand(node_ind, dem, urnd)
        num_source_pins == get_num_pins(ptc_num[source_ind])
        num_sink_pins == get_num_pins(ptc_num[sink_ind])
        source_contribution == hist[node_ind][source_ind] \div num_source_pins
        sink_contribution == hist[node_ind][sink_ind] \div num_sink_pins
        modifier == Max(0, Max(source_contribution, sink_contribution))
    IN  IF modifier > adjusted_node_demand
        THEN [value |-> adjusted_node_demand, err |-> "modifier_gt_demand"]
        ELSE [value |-> Max(0, adjusted_node_demand - modifier), err |-> "none"]

(***************************************************************************)
(* enumerate_connection_paths                                              *)
(***************************************************************************)
Arena(st, topo) == [ss |-> st.ss, node_topo_inf |-> topo, nodes_visited |-> st.nodes_visited]
PassState(ar) == [ss |-> ar.ss, nodes_visited |-> ar.nodes_visited, pq |-> <<>>, err |-> "none"]

\* The results below are [ar, err, ran, contrib]: the arena, the error thrown,
\* whether the traversals ran, and the demand the forward traversal adds to each node.

\* after the forward traversal: the demand of every node it popped
enumerate_after_forward(forw, source_node_ind, max_path_weight, wt) ==
    LET popped == LegalReach({source_node_ind}, forw.ss, FORWARD_TRAVERSAL,
                             max_path_weight, wt)
    IN  [ar |-> forw, err |-> "none", ran |-> TRUE,
         contrib |-> [n \in Nodes |->
                         IF n \in popped
                         THEN paths_through(forw.node_topo_inf[n], wt[n], max_path_weight)
                         ELSE 0]]

\* after the backward traversal: the number of paths, the scaled start, the
\* forward traversal
enumerate_after_backward(back, source_node_ind, max_path_weight, wt, scaling_factor_for_enumerate) ==
    LET num_enumerated == get_num_paths(back.node_topo_inf[source_node_ind],
                                        wt[source_node_ind], max_path_weight)
        scaled_starting_source_paths ==
            IF num_enumerated > 0
            THEN IF scaling_factor_for_enumerate # UNDEFINED
                 THEN scaling_factor_for_enumerate \div num_enumerated
                 ELSE DemandUnit
            ELSE 0
    IN  enumerate_after_forward(
            do_topological_traversal(
                back, source_node_ind, FORWARD_TRAVERSAL, max_path_weight,
                wt, wt, scaled_starting_source_paths, AllOnes, 1),
            source_node_ind, max_path_weight, wt)

\* the test "max_path_weight > 0 && min_dist > 0" under which the traversals run
traversals_run(max_path_weight, min_dist) == max_path_weight > 0 /\ min_dist > 0

\* after get_ss_distances_and_adjust_max_path_weight returned adj
enumerate_after_distances(adj, node_topo_inf, source_node_ind, sink_node_ind, wt, scaling_factor_for_enumerate) ==
    IF adj.err # "none"
    THEN [ar |-> Arena(adj, node_topo_inf), err |-> adj.err, ran |-> FALSE,
          contrib |-> [n \in Nodes |-> 0]]
    ELSE IF ~traversals_run(adj.max_path_weight, adj.min_dist)
    THEN [ar |-> Arena(adj, node_topo_inf), err |-> "none", ran |-> FALSE,
          contrib |-> [n \in Nodes |-> 0]]
    ELSE enumerate_after_backward(
             do_topological_traversal(
                 Arena(adj, node_topo_inf), sink_node_ind, BACKWARD_TRAVERSAL,
                 adj.max_path_weight, wt, wt, 1, AllOnes, 1),
             source_node_ind, adj.max_path_weight, wt, scaling_factor_for_enumerate)

enumerate_connection_paths(ar, source_node_ind, sink_node_ind, max_path_weight, wt, scaling_factor_for_enumerate) ==
    enumerate_after_distances(
        get_ss_distances_and_adjust_max_path_weight(
            set_node_distances(
                set_node_distances(PassState(ar), source_node_ind, sink_node_ind,
                                   max_path_weight, FORWARD_TRAVERSAL, wt),
                sink_node_ind, source_node_ind, max_path_weight, BACKWARD_TRAVERSAL, wt),
            source_node_ind, sink_node_ind, max_path_weight, wt),
        ar.node_topo_inf, source_node_ind, sink_node_ind, wt,
        scaling_factor_for_enumerate)

(***************************************************************************)
(* Probability models                                                      *)
(***************************************************************************)
RECURSIVE Pow(_, _)
Pow(b, e) == IF e <= 0 THEN 1 ELSE b * Pow(b, e - 1)

\* the product of the demands of a cut, each over DemandUnit, in ProbUnit
RECURSIVE ProdDemand(_, _)
ProdDemand(S, adj) ==
    IF S = {} THEN ProbUnit
    ELSE LET v == CHOOSE x \in S : \A y \in S : x <= y
         IN  (adj[v] * ProdDemand(S \ {v}, adj)) \div DemandUnit

\* the cutline models: a connection is routable only if every hop level between
\* source and sink has a free node; the estimate is the least level availability
cutline_prob_routable(R, hops, sink_node_ind, adj) ==
    LET levels == 1..(hops[sink_node_ind] - 1)
        avail(h) == ProbUnit - ProdDemand({n \in R : hops[n] = h}, adj)
    IN  IF levels = {} THEN ProbUnit
        ELSE CHOOSE a \in {avail(h) : h \in levels} :
                 \A h \in levels : a <= avail(h)

\* the propagate model: the probability mass that reaches the sink
propagate_prob_routable(t) ==
    SumSeq([i \in 1..(MaxBucket + 1) |-> t.source_buckets[i - 1]])

\* analyze_reliability_polynomial: buckets[h] paths of h hops, each needing its
\* routing nodes free (p) and leaving the other routing nodes of the subgraph
analyze_reliability_polynomial(t, num_routing_nodes, p) ==
    SumSeq([i \in 1..(MaxBucket + 1) |->
               LET h == Min(i - 1, num_routing_nodes)
               IN  (t.source_buckets[i - 1] * Pow(p, h)
                      * Pow(DemandUnit - p, num_routing_nodes - h) * ProbUnit)
                   \div Pow(DemandUnit, num_routing_nodes)])

\* The results below are [ar, err, prob, contrib]: the arena, the error thrown,
\* the value returned, and the demand the call adds to each node
\* (RELIABILITY_POLYNOMIAL runs the enumeration traversal, which increments node
\* demands).

\* a variant of the range check without the upper bound
checked_probability_without_upper_bound(a, p, c) ==
    IF p < 0 THEN [ar |-> a, err |-> "prob_lt_0", prob |-> p, contrib |-> c]
    ELSE [ar |-> a, err |-> "none", prob |-> p, contrib |-> c]

\* the range check on the value of the model
checked_probability(a, p, c) ==
    IF p > ProbUnit THEN [ar |-> a, err |-> "prob_gt_1", prob |-> p, contrib |-> c]
    ELSE IF p < 0 THEN [ar |-> a, err |-> "prob_lt_0", prob |-> p, contrib |-> c]
    ELSE [ar |-> a, err |-> "none", prob |-> p, contrib |-> c]

\* RELIABILITY_POLYNOMIAL on the arena with hops
estimate_reliability_polynomial(trav, R, sink_node_ind, urnd) ==
    LET reached(n) == SumSeq([i \in 1..(MaxBucket + 1) |->
                         trav.node_topo_inf[n].source_buckets[i - 1]])
    IN  checked_probability(
            trav,
            analyze_reliability_polynomial(
                trav.node_topo_inf[sink_node_ind],
                Cardinality({n \in R : IsRoutingNode(n)}),
                DemandUnit - urnd),
            [n \in Nodes |-> IF n \in R THEN DemandUnit * reached(n) ELSE 0])

\* the model chosen by PROBABILITY_MODE, on the arena ar1 of a reachable pair;
\* with_hops is ar1 after the two set_node_hops passes
estimate_by_mode(ar1, with_hops, source_node_ind, sink_node_ind, W, wt, mode, dem, hist, urnd) ==
    LET none == [n \in Nodes |-> 0]
        R == LegalReach({source_node_ind}, ar1.ss, FORWARD_TRAVERSAL, W, wt)
        adjres == [n \in Nodes |->
                      get_node_demand_adjusted_for_path_history(
                          n, source_node_ind, sink_node_ind, dem, hist, urnd)]
        adjusted == [n \in Nodes |-> adjres[n].value]
        hops == [n \in Nodes |-> with_hops.ss[n].source_hops]
    IN  IF mode = RELIABILITY_POLYNOMIAL
        THEN IF urnd = UNDEFINED
             THEN [ar |-> ar1, err |-> "no_routing_node_demand", prob |-> 0,
                   contrib |-> none]
             ELSE estimate_reliability_polynomial(
                      do_topological_traversal(
                          with_hops, source_node_ind, FORWARD_TRAVERSAL, W,
                          wt, AllOnes, 1, AllOnes, 1),
                      R, sink_node_ind, urnd)
        ELSE IF \E n \in R \ {source_node_ind} : adjres[n].err # "none"
        THEN [ar |-> ar1, err |-> "modifier_gt_demand", prob |-> 0, contrib |-> none]
        ELSE IF mode = PROPAGATE
        THEN LET trav == do_topological_traversal(
                             ar1, source_node_ind, FORWARD_TRAVERSAL, W, wt, wt,
                             ProbUnit, [n \in Nodes |-> DemandUnit - adjusted[n]],
                             DemandUnit)
             IN  checked_probability(
                     trav, propagate_prob_routable(trav.node_topo_inf[sink_node_ind]),
                     none)
        ELSE checked_probability(
                 do_topological_traversal(
                     IF mode = CUTLINE THEN ar1 ELSE with_hops,
                     source_node_ind, FORWARD_TRAVERSAL, W, wt, wt, 0, AllOnes, 1),
                 cutline_prob_routable(R, hops, sink_node_ind, adjusted),
                 none)

\* after get_ss_distances_and_adjust_max_path_weight returned adj
estimate_after_distances(adj, node_topo_inf, source_node_ind, sink_node_ind, wt, mode, dem, hist, urnd) ==
    IF adj.err # "none"
    THEN [ar |-> Arena(adj, node_topo_inf), err |-> adj.err, prob |-> 0,
          contrib |-> [n \in Nodes |-> 0]]
    ELSE IF ~traversals_run(adj.max_path_weight, adj.min_dist)
    THEN [ar |-> Arena(adj, node_topo_inf), err |-> "none", prob |-> 0,
          contrib |-> [n \in Nodes |-> 0]]
    ELSE estimate_by_mode(
             Arena(adj, node_topo_inf),
             [Arena(adj, node_topo_inf) EXCEPT !.ss =
                 set_node_hops(
                     set_node_hops(@, source_node_ind, adj.max_path_weight,
                                   FORWARD_TRAVERSAL, wt),
                     sink_node_ind, adj.max_path_weight, BACKWARD_TRAVERSAL, wt)],
             source_node_ind, sink_node_ind, adj.max_path_weight, wt, mode,
             dem, hist, urnd)

estimate_connection_probability(ar, source_node_ind, sink_node_ind, max_path_weight, wt, mode, dem, hist, urnd) ==
    estimate_after_distances(
        get_ss_distances_and_adjust_max_path_weight(
            PassState(ar), source_node_ind, sink_node_ind, max_path_weight, wt),
        ar.node_topo_inf, source_node_ind, sink_node_ind, wt, mode, dem, hist, urnd)

(***************************************************************************)
(* The architecture seen by the dispatcher                                 *)
(***************************************************************************)
\* grid[x][y] is of the fill type exactly off the perimeter (the perimeter is I/O)
InGridBounds(x, y) == x > 0 /\ x < grid_size_x - 1 /\ y > 0 /\ y < grid_size_y - 1
IsFillType(x, y) == InGridBounds(x, y)

\* a grid given by its sizes and the tiles off its perimeter that are not of the
\* fill type: the bounds test and the type test on it
InBoundsOf(grid, x, y) == x > 0 /\ x < grid.size_x - 1 /\ y > 0 /\ y < grid.size_y - 1
\* a variant that takes every tile off the perimeter to be of the fill type
every_tile_of_fill_type(grid, x, y) == InBoundsOf(grid, x, y)

IsFillTypeOf(grid, x, y) == InBoundsOf(grid, x, y) /\ <<x, y>> \notin grid.other

\* the grid of the run
TheGrid == [size_x |-> grid_size_x, size_y |-> grid_size_y, other |-> {}]

\* analysis_settings->test_tile_coords
test_tile_coords == << <<1, 1>>, <<2, 1>> >>

\* user_opts->analyze_core, an option of the run
VARIABLE analyze_core

\* routing_structs->rr_node_index[type][x][y][ptc]
rr_node_index(type, x, y, ptc) ==
    CHOOSE n \in Nodes : rr_type[n] = type /\ xlow[n] = x /\ ylow[n] = y /\ ptc_num[n] = ptc

\* Physical_Type_Descriptor::get_num_drivers / get_num_receivers of the fill type
get_num_drivers ==
    SumSeq([i \in 1..2 |-> IF class_inf[i - 1].pin_type = "DRIVER"
                           THEN get_num_pins(i - 1) ELSE 0])
get_num_receivers ==
    SumSeq([i \in 1..2 |-> IF class_inf[i - 1].pin_type = "RECEIVER"
                           THEN get_num_pins(i - 1) ELSE 0])

\* the routing nodes of the fabric that lie out of reach of the test tiles: they
\* are counted by get_num_routing_nodes and their demand stays 0
num_far_routing_nodes == 17
get_num_routing_nodes == Cardinality({n \in Nodes : IsRoutingNode(n)}) + num_far_routing_nodes

\* the loop "for idy = -y_distance; idy <= y_distance; idy += max(2*y_distance, 1)"
RECURSIVE idy_loop(_, _)
\* a variant that steps by 1
idy_loop_by_one(idy, y_distance) ==
    IF idy <= y_distance THEN <<idy>> \o idy_loop(idy + 1, y_distance) ELSE <<>>

idy_loop(idy, y_distance) ==
    IF idy <= y_distance
    THEN <<idy>> \o idy_loop(idy + Max(2 * y_distance, 1), y_distance)
    ELSE <<>>

\* the loop "for idx = -length; idx <= length; idx++" around it: the offsets visited
RECURSIVE dest_offsets_from(_, _)
dest_offsets_from(idx, length) ==
    IF idx <= length
    THEN LET y_distance == length - Abs(idx)
             ys == idy_loop(-y_distance, y_distance)
         IN  [i \in 1..Len(ys) |-> <<idx, ys[i]>>] \o dest_offsets_from(idx + 1, length)
    ELSE <<>>
dest_offsets(length) == dest_offsets_from(-length, length)

\* the destination tiles of a test tile at a length: the offsets inside the grid bounds
dest_tiles_on(grid, tile_x, tile_y, length) ==
    LET offs == dest_offsets(length)
        keep(i) == InBoundsOf(grid, tile_x + offs[i][1], tile_y + offs[i][2])
        RECURSIVE from(_)
        from(i) == IF i > Len(offs) THEN <<>>
                   ELSE (IF keep(i) THEN << <<tile_x + offs[i][1], tile_y + offs[i][2]>> >>
                         ELSE <<>>) \o from(i + 1)
    IN  from(1)
dest_tiles(tile_x, tile_y, length) == dest_tiles_on(TheGrid, tile_x, tile_y, length)

\* conns_at_distance_from_tile: [value, err]
conns_at_distance_from_tile_on(grid, tile_x, tile_y, length) ==
    LET dests == dest_tiles_on(grid, tile_x, tile_y, length)
    IN  IF \E i \in 1..Len(dests) : ~IsFillTypeOf(grid, dests[i][1], dests[i][2])
        THEN [value |-> 0, err |-> "not_fill_type"]
        ELSE [value |-> Len(dests) * get_num_receivers, err |-> "none"]
conns_at_distance_from_tile(tile_x, tile_y, length) ==
    conns_at_distance_from_tile_on(TheGrid, tile_x, tile_y, length)

\* enumerate_paths_from_source: the destinations at a length its second pass
\* analyzes, after its first pass went over the same tiles: [err, dests]
included_destinations(grid, tile, length) ==
    IF \E i \in 1..Len(dest_tiles_on(grid, tile[1], tile[2], length)) :
          ~IsFillTypeOf(grid, dest_tiles_on(grid, tile[1], tile[2], length)[i][1],
                        dest_tiles_on(grid, tile[1], tile[2], length)[i][2])
    THEN [err |-> "not_fill_type", dests |-> <<>>]
    ELSE [err |-> "none", dests |-> dest_tiles_on(grid, tile[1], tile[2], length)]

\* get_conn_length_stats: conns_at_length, over the tiles off the perimeter (or
\* the core region under analyze_core)
get_conn_length_stats ==
    LET from_x == IF analyze_core THEN CORE_OFFSET ELSE 1
        to_x == IF analyze_core THEN grid_size_x - 1 - CORE_OFFSET ELSE grid_size_x - 2
        from_y == IF analyze_core THEN CORE_OFFSET ELSE 1
        to_y == IF analyze_core THEN grid_size_y - 1 - CORE_OFFSET ELSE grid_size_y - 2
    IN  [ilen \in 0..max_connection_length |->
            IF ilen = 0 THEN 0
            ELSE SumSeq([i \in 1..(to_x - from_x + 1) |->
                     SumSeq([j \in 1..(to_y - from_y + 1) |->
                         get_num_drivers
                           * conns_at_distance_from_tile(from_x + i - 1, from_y + j - 1,
                                                         ilen).value])])]

\* WORST_ROUTABILITY_PERCENTILE 0.10 and WORST_NODE_DEMAND_PERCENTILE 0.05 as
\* fractions; the products are truncated by the conversion to int
WorstRoutabilityNum == 10
WorstNodeDemandNum == 5
PercentDen == 100
\* a variant that rounds the product up
entries_limit_rounded_up(conns) ==
    (conns * WorstRoutabilityNum + PercentDen - 1) \div PercentDen

entries_limit(conns) == (conns * WorstRoutabilityNum) \div PercentDen

(***************************************************************************)
(* The dispatcher: analyze_test_tile_connections hands the sources of the  *)
(* test tiles to the threads, enumerate_paths_from_source walks a thread's *)
(* list                                                                    *)
(***************************************************************************)
Threads == 0..(NumThreads - 1)

Conn_Info == [source_node_inds |-> <<>>, tile_coords |-> <<>>, topological_mode |-> ENUMERATE]

push_item(info, ithread, node, tile) ==
    [info EXCEPT ![ithread].source_node_inds = Append(@, node),
                 ![ithread].tile_coords = Append(@, tile)]

\* a variant that never moves on to the next thread
same_thread(ithread) == ithread

\* the step of the counters ithread_source and ithread_sink
next_thread(ithread) == IF ithread + 1 = NumThreads THEN 0 ELSE ithread + 1

\* d = [info, ithread_source, ithread_sink]
RECURSIVE assign_ipins(_, _, _, _)
assign_ipins(d, tile, pinlist, ipin) ==
    IF ipin > Len(pinlist) THEN d
    ELSE assign_ipins(
             [d EXCEPT !.info = push_item(@, d.ithread_sink,
                                          rr_node_index("IPIN", tile[1], tile[2], pinlist[ipin]),
                                          tile),
                       !.ithread_sink = next_thread(@)],
             tile, pinlist, ipin + 1)

RECURSIVE assign_classes(_, _, _)
assign_classes(d, tile, iclass) ==
    IF iclass \notin DOMAIN class_inf THEN d
    ELSE IF class_inf[iclass].pin_type = "DRIVER"
    THEN assign_classes(
             [d EXCEPT !.info = push_item(@, d.ithread_source,
                                          rr_node_index("SOURCE", tile[1], tile[2], iclass),
                                          tile),
                       !.ithread_source = next_thread(@)],
             tile, iclass + 1)
    ELSE assign_classes(assign_ipins(d, tile, class_inf[iclass].pinlist, 1), tile, iclass + 1)

outside_core_on(tile, size_x, size_y) ==
    \/ tile[1] < CORE_OFFSET \/ tile[1] > size_x - 1 - CORE_OFFSET
    \/ tile[2] < CORE_OFFSET \/ tile[2] > size_y - 1 - CORE_OFFSET

outside_core(tile) == outside_core_on(tile, grid_size_x, grid_size_y)

\* a variant that leaves a tile outside the core out of both phases
tile_skipped_in_both_phases(tile, topological_mode) ==
    analyze_core /\ outside_core(tile)

\* the core filter: under analyze_core the reachability analysis leaves out the
\* tiles outside the core
tile_skipped(tile, topological_mode) ==
    topological_mode = PROBABILITY /\ analyze_core /\ outside_core(tile)

RECURSIVE assign_tiles(_, _, _)
assign_tiles(d, it, topological_mode) ==
    IF it > Len(test_tile_coords) THEN d
    ELSE assign_tiles(IF tile_skipped(test_tile_coords[it], topological_mode) THEN d
                      ELSE assign_classes(d, test_tile_coords[it], 0),
                      it + 1, topological_mode)

\* thread_conn_info as analyze_test_tile_connections leaves it before the launch
build_thread_conn_info(topological_mode) ==
    assign_tiles([info |-> [t \in Threads |->
                               [Conn_Info EXCEPT !.topological_mode = topological_mode]],
                  ithread_source |-> 0, ithread_sink |-> 0],
                 1, topological_mode).info

\* get_sum_of_source_probabilities: [sum, one_pin_prob, err]
get_sum_of_source_probabilities(source_node_ind) ==
    LET node_ptc == ptc_num[source_node_ind]
        pinlist == class_inf[node_ptc].pinlist
        this_pin_prob == IF Len(pinlist) = 0 THEN UNDEFINED ELSE pin_probabilities[pinlist[1]]
    IN  IF rr_type[source_node_ind] = "SOURCE"
        THEN IF \E i \in 1..Len(pinlist) : pin_probabilities[pinlist[i]] # this_pin_prob
             THEN [sum |-> 0, one_pin_prob |-> this_pin_prob, err |-> "pin_probs_differ"]
             ELSE [sum |-> Len(pinlist) * this_pin_prob, one_pin_prob |-> this_pin_prob,
                   err |-> "none"]
        ELSE IF rr_type[source_node_ind] = "IPIN"
        THEN [sum |-> pin_probabilities[node_ptc], one_pin_prob |-> pin_probabilities[node_ptc],
              err |-> "none"]
        ELSE [sum |-> 0, one_pin_prob |-> 0, err |-> "unexpected_node_type"]

\* get_num_sinks / get_num_sources: [value, err]
get_num_sinks(sink_node_ind) ==
    IF rr_type[sink_node_ind] # "SINK" THEN [value |-> 0, err |-> "expected_sink"]
    ELSE [value |-> get_num_pins(ptc_num[sink_node_ind]), err |-> "none"]
get_num_sources(source_node_ind) ==
    IF rr_type[source_node_ind] # "SOURCE" THEN [value |-> 0, err |-> "expected_source"]
    ELSE [value |-> get_num_pins(ptc_num[source_node_ind]), err |-> "none"]

\* Coordinate::get_dx_plus_dy
get_dx_plus_dy(tile, x, y) == Abs(tile[1] - x) + Abs(tile[2] - y)

\* the analyze_connection calls the second pass of enumerate_paths_from_source
\* makes for one list entry, in order: [err, conns]
item_connections(source_node_ind, tile) ==
    LET max_block_dist ==
            Max(Max(get_dx_plus_dy(tile, 1, 1), get_dx_plus_dy(tile, 1, grid_size_y - 2)),
                Max(get_dx_plus_dy(tile, grid_size_x - 2, grid_size_y - 2),
                    get_dx_plus_dy(tile, grid_size_x - 2, 1)))
        receiver_classes ==
            SetToSeq({c \in DOMAIN class_inf :
                         /\ class_inf[c].pin_type = "RECEIVER"
                         /\ get_num_pins(c) # 0
                         /\ ~is_global_pin[class_inf[c].pinlist[1]]})
        at_dest(ilen, dest) ==
            [i \in 1..Len(receiver_classes) |->
                [source_node_ind |-> source_node_ind,
                 sink_node_ind |-> rr_node_index("SINK", dest[1], dest[2], receiver_classes[i]),
                 conn_length |-> ilen,
                 number_conns_at_length |->
                     conns_at_distance_from_tile(tile[1], tile[2], ilen).value]]
        RECURSIVE over_dests(_, _, _)
        over_dests(ilen, dests, i) ==
            IF i > Len(dests) THEN <<>>
            ELSE at_dest(ilen, dests[i]) \o over_dests(ilen, dests, i + 1)
        RECURSIVE over_lengths(_)
        over_lengths(ilen) ==
            IF ilen > max_connection_length THEN <<>>
            ELSE (IF length_probabilities[ilen] = 0 THEN <<>>
                  ELSE over_dests(ilen, included_destinations(TheGrid, tile, ilen).dests, 1))
                 \o over_lengths(ilen + 1)
        dest_not_fill ==
            \E ilen \in 1..max_connection_length :
                /\ length_probabilities[ilen] # 0
                /\ included_destinations(TheGrid, tile, ilen).err # "none"
        probs == get_sum_of_source_probabilities(source_node_ind)
    IN  IF probs.err # "none" THEN [err |-> probs.err, conns |-> <<>>]
        ELSE IF probs.sum = 0 THEN [err |-> "none", conns |-> <<>>]
        ELSE IF ~IsFillType(tile[1], tile[2]) THEN [err |-> "not_fill_type", conns |-> <<>>]
        ELSE IF max_block_dist < max_connection_length
        THEN [err |-> "no_block_at_length", conns |-> <<>>]
        ELSE IF dest_not_fill THEN [err |-> "not_fill_type", conns |-> <<>>]
        ELSE [err |-> "none", conns |-> over_lengths(1)]

\* the walk of enumerate_paths_from_source from list position isource (1-based)
\* up to its next analyze_connection call: [err, isource, conns]
RECURSIVE next_item_with_calls(_, _)
next_item_with_calls(info, isource) ==
    IF isource > Len(info.source_node_inds)
    THEN [err |-> "none", isource |-> isource, conns |-> <<>>]
    ELSE LET item == item_connections(info.source_node_inds[isource], info.tile_coords[isource])
         IN  IF item.err # "none" \/ item.conns # <<>>
             THEN [err |-> item.err, isource |-> isource + 1, conns |-> item.conns]
             ELSE next_item_with_calls(info, isource + 1)

(***************************************************************************)
(* The state of a run                                                      *)
(***************************************************************************)
VARIABLES
    rr_weight,                \* RR_Node::get_weight of every node
    max_path_weight_setting,  \* analysis_settings->get_max_path_weight(1)
    probability_mode,         \* the compiled-in PROBABILITY_MODE
    use_routing_node_demand,  \* user_opts->use_routing_node_demand
    demand,                   \* RR_Node::demand of every node
    path_count_history,       \* RR_Node::path_count_history[node][endpoint]
    demand_lock,              \* the holder of every node's demand lock
    f_analysis_results,       \* the shared Analysis_Results
    thread_conn_info,         \* Conn_Info of every thread
    arena,                    \* ss_distances, node_topo_inf, nodes_visited of every thread
    worker,                   \* the position and locals of every thread's worker
    main,                     \* the position of the dispatching thread
    failed,                   \* the exception that ended the run, or "none"
    printed,                  \* what the dispatcher reported after the last phase
    observed,                 \* history of the run: calls made and returned, accesses
    call_log                  \* history of a repeated-call run: the effect of every call

vars == <<analyze_core, input_pin_probability, rr_weight, max_path_weight_setting, probability_mode, use_routing_node_demand,
          demand, path_count_history, demand_lock, f_analysis_results, thread_conn_info,
          arena, worker, main, failed, printed, observed, call_log>>

config == <<analyze_core, input_pin_probability, rr_weight, max_path_weight_setting, probability_mode, use_routing_node_demand>>

Unlocked == UNDEFINED

\* user_opts->keep_path_count_history
keep_path_count_history == TRUE

FreshArena == [ss |-> alloc_ss_distances, node_topo_inf |-> alloc_node_topo_inf,
               nodes_visited |-> <<>>]

NoConn == [source_node_ind |-> UNDEFINED, sink_node_ind |-> UNDEFINED,
           conn_length |-> UNDEFINED, number_conns_at_length |-> UNDEFINED]

IdleWorker == [pc |-> "idle", topological_mode |-> ENUMERATE, isource |-> 1, todo |-> <<>>, conn |-> NoConn,
               pending |-> <<>>, reg |-> 0, probability_connection_routable |-> 0,
               scaling_factor |-> 0, probability_increment |-> 0, nodes_cleaned |-> 0]

\* Analysis_Results() zeroes the four counters; the queues are assigned later
Analysis_Results ==
    [thread_mutex |-> Unlocked, max_possible_total_prob |-> 0, total_prob |-> 0,
     lowest_probs_pqs |-> <<>>, desired_conns |-> 0, num_conns |-> 0]

NothingObserved ==
    [calls_made |-> 0, enumerate_returned |-> 0, probability_returned |-> 0,
     demand_added |-> [n \in Nodes |-> 0], demand_read_in |-> {},
     demand_written_in |-> {}, joined |-> {},
     runs |-> [t \in Threads |-> 0], on_new_thread |-> {}]

\* the metrics when the last call began, and what every call since the last
\* dispatch added to them
NoCalls == [before |-> <<>>, deltas |-> <<>>]

\* the settings and options of a run
Settings ==
    /\ \E c \in WeightChoices : rr_weight = NodeWeights(c)
    /\ max_path_weight_setting \in MaxPathWeightChoices
    /\ probability_mode \in ProbabilityModes
    /\ use_routing_node_demand \in {UNDEFINED, DemandUnit \div 2}
    /\ analyze_core \in BOOLEAN
    /\ input_pin_probability \in {0, 1}

\* the graph, the shared results and the threads before analyze_fpga_architecture
Constructed ==
    /\ demand = [n \in Nodes |-> 0]
    /\ path_count_history = [n \in Nodes |-> [e \in Nodes |-> 0]]
    /\ demand_lock = [n \in Nodes |-> Unlocked]
    /\ f_analysis_results = Analysis_Results
    /\ thread_conn_info = [t \in Threads |-> Conn_Info]
    /\ arena = [t \in Threads |-> FreshArena]
    /\ worker = [t \in Threads |-> IdleWorker]
    /\ failed = "none"
    /\ printed = <<>>
    /\ observed = NothingObserved
    /\ call_log = NoCalls

\* the dispatching thread, its local conns_at_length and the node list of a run
\* of node_demand_metric alone
MainAt(pc, conns_at_length, rr_node) ==
    [pc |-> pc, topological_mode |-> ENUMERATE, ithread |-> 0,
     conns_at_length |-> conns_at_length, rr_node |-> rr_node, dest |-> <<>>,
     dist |-> <<>>]

Init ==
    /\ Settings
    /\ Constructed
    /\ main = MainAt("analyze_fpga_architecture", <<>>, <<>>)

(***************************************************************************)
(* The worst-connection queues (My_Fixed_Size_PQ): a queue keeps at most   *)
(* limit entries, the smallest pushed so far, in ascending order           *)
(***************************************************************************)
Fixed_Size_PQ == [limit |-> 0, entries |-> <<>>]

RECURSIVE sorted_insert(_, _)
sorted_insert(q, v) ==
    IF q = <<>> THEN <<v>>
    ELSE IF v <= Head(q) THEN <<v>> \o q
    ELSE <<Head(q)>> \o sorted_insert(Tail(q), v)

fixed_pq_push(pq, v) ==
    LET all == sorted_insert(pq.entries, v)
    IN  [pq EXCEPT !.entries = SubSeq(all, 1, Min(Len(all), pq.limit))]

RECURSIVE fixed_pq_push_times(_, _, _)
fixed_pq_push_times(pq, v, times) ==
    IF times <= 0 THEN pq ELSE fixed_pq_push_times(fixed_pq_push(pq, v), v, times - 1)

\* analyze_lowest_probs_pqs: [result, pqs] -- the sum of all entries, which it pops
analyze_lowest_probs_pqs(pqs) ==
    [result |-> SumSeq([i \in 1..Len(pqs) |-> SumSeq(pqs[i].entries)]),
     pqs |-> [i \in 1..Len(pqs) |-> [pqs[i] EXCEPT !.entries = <<>>]]]

\* node_demand_metric: [value, err] -- the mean of the node_num_limit largest
\* demands of the routing nodes
RECURSIVE largest(_, _)
largest(q, k) ==
    IF k <= 0 \/ q = <<>> THEN <<>>
    ELSE LET i == CHOOSE i \in 1..Len(q) : \A j \in 1..Len(q) : q[j] <= q[i]
         IN  <<q[i]>> \o largest(SubSeq(q, 1, i - 1) \o SubSeq(q, i + 1, Len(q)), k - 1)

\* a variant that rounds the product up
node_num_limit_rounded_up(num_routing_nodes) ==
    (num_routing_nodes * WorstNodeDemandNum + PercentDen - 1) \div PercentDen

node_num_limit(num_routing_nodes) ==
    (num_routing_nodes * WorstNodeDemandNum) \div PercentDen

\* the demands node_demand_metric pushes: those of the CHANX and CHANY nodes of
\* rr_node, a sequence of [rr_type, demand]
RECURSIVE routing_demands(_)
routing_demands(rr_node) ==
    IF rr_node = <<>> THEN <<>>
    ELSE (IF Head(rr_node).rr_type \in {"CHANX", "CHANY"}
          THEN <<Head(rr_node).demand>> ELSE <<>>)
         \o routing_demands(Tail(rr_node))

\* node_demand_metric on the node list rr_node
node_demand_metric_on(rr_node) ==
    LET limit == node_num_limit(Len(routing_demands(rr_node)))
        kept == largest(routing_demands(rr_node), limit)
    IN  IF limit <= 0 THEN [value |-> 0, err |-> "analyze_no_nodes"]
        ELSE [value |-> SumSeq(kept) \div Len(kept), err |-> "none"]

\* the node list of the graph: its nodes with their demands and the routing nodes
\* away from the test tiles
rr_node_list(dem, urnd) ==
    [i \in 1..(Cardinality(Nodes) + num_far_routing_nodes) |->
        IF i \in Nodes THEN [rr_type |-> rr_type[i], demand |-> get_demand(i, dem, urnd)]
        ELSE [rr_type |-> "CHANX", demand |-> IF urnd # UNDEFINED THEN urnd ELSE 0]]

node_demand_metric(dem, urnd) == node_demand_metric_on(rr_node_list(dem, urnd))

(***************************************************************************)
(* The dispatching thread                                                  *)
(***************************************************************************)
\* WTHROW: the exception is not caught by the engine and ends the run
Throw(err) == failed' = err

LastThread == NumThreads - 1

\* analyze_fpga_architecture: the queues it creates, one per length 0 ..
\* max_connection_length, with the entry limits it sets for conns_at_length
lowest_probs_pqs_for(conns_at_length) ==
    [i \in 1..(max_connection_length + 1) |->
        IF conns_at_length[i - 1] = 0 THEN Fixed_Size_PQ
        ELSE [Fixed_Size_PQ EXCEPT !.limit = entries_limit(conns_at_length[i - 1])]]

\* analyze_fpga_architecture up to its first analyze_test_tile_connections call
AnalyzeFpgaArchitecture ==
    /\ failed = "none"
    /\ main.pc = "analyze_fpga_architecture"
    /\ f_analysis_results' =
           [f_analysis_results EXCEPT
               !.lowest_probs_pqs = lowest_probs_pqs_for(get_conn_length_stats),
               !.thread_mutex = Unlocked]
    /\ main' = [main EXCEPT !.pc = "dispatch", !.topological_mode = ENUMERATE,
                            !.conns_at_length = get_conn_length_stats]
    /\ UNCHANGED <<config, call_log, demand, path_count_history, demand_lock, thread_conn_info,
                   arena, worker, failed, printed, observed>>

\* analyze_test_tile_connections up to launch_pthreads: the arenas and the lists
AnalyzeTestTileConnections ==
    /\ failed = "none"
    /\ main.pc = "dispatch"
    /\ arena' = [t \in Threads |-> FreshArena]
    /\ thread_conn_info' = build_thread_conn_info(main.topological_mode)
    /\ main' = [main EXCEPT !.pc = "create", !.ithread = 0]
    /\ UNCHANGED <<config, call_log, demand, path_count_history, demand_lock, f_analysis_results,
                   worker, failed, printed, observed>>

StartedWorker(t) ==
    [IdleWorker EXCEPT !.pc = "run",
                       !.topological_mode = thread_conn_info[t].topological_mode]

\* what pthread_create and pthread_join return: 0, or an error number
PthreadResults == {0, 11}

\* launch_pthreads: pthread_create of thread ithread, which starts
\* enumerate_paths_from_source on the list of the thread, or fails
CreateThread ==
    /\ failed = "none"
    /\ main.pc = "create"
    /\ main.ithread < LastThread
    /\ \E result \in PthreadResults :
          IF result # 0
          THEN Throw("failed_to_create_thread") /\ UNCHANGED <<worker, main, observed>>
          ELSE /\ worker' = [worker EXCEPT ![main.ithread] = StartedWorker(main.ithread)]
               /\ main' = [main EXCEPT !.ithread = @ + 1]
               /\ observed' = [observed EXCEPT
                                  !.runs[main.ithread] = @ + 1,
                                  !.on_new_thread = @ \cup {main.ithread}]
               /\ UNCHANGED failed
    /\ UNCHANGED <<config, call_log, demand, path_count_history, demand_lock, f_analysis_results,
                   thread_conn_info, arena, printed>>

\* a variant that goes on to the joins without walking the last list
RunLastThreadSkippingList ==
    /\ failed = "none"
    /\ main.pc = "create"
    /\ main.ithread = LastThread
    /\ main' = [main EXCEPT !.pc = "join", !.ithread = 0]
    /\ UNCHANGED <<config, call_log, demand, path_count_history, demand_lock, f_analysis_results,
                   thread_conn_info, arena, worker, failed, printed, observed>>

\* launch_pthreads: the last list is walked in the dispatcher's own context
RunLastThread ==
    /\ failed = "none"
    /\ main.pc = "create"
    /\ main.ithread = LastThread
    /\ worker' = [worker EXCEPT ![LastThread] = StartedWorker(LastThread)]
    /\ main' = [main EXCEPT !.pc = "own_list"]
    /\ observed' = [observed EXCEPT !.runs[LastThread] = @ + 1]
    /\ UNCHANGED <<config, call_log, demand, path_count_history, demand_lock, f_analysis_results,
                   thread_conn_info, arena, failed, printed>>

\* launch_pthreads: enumerate_paths_from_source returned in the dispatcher
LastThreadReturns ==
    /\ failed = "none"
    /\ main.pc = "own_list"
    /\ worker[LastThread].pc = "done"
    /\ main' = [main EXCEPT !.pc = "join", !.ithread = 0]
    /\ UNCHANGED <<config, call_log, demand, path_count_history, demand_lock, f_analysis_results,
                   thread_conn_info, arena, worker, failed, printed, observed>>

\* a variant of a join that does not wait
thread_taken_as_finished(w, ithread) == TRUE

\* pthread_join returns once the thread has finished
thread_finished(w, ithread) == w[ithread].pc = "done"

\* a variant of the join loop that stops one thread short
join_count_one_short == NumThreads - 2

\* the bound of the join loop: every created thread is joined
join_count == NumThreads - 1

\* launch_pthreads: pthread_join of thread ithread returns, with 0 or an error
JoinThread ==
    /\ failed = "none"
    /\ main.pc = "join"
    /\ main.ithread < join_count
    /\ thread_finished(worker, main.ithread)
    /\ \E result \in PthreadResults :
          IF result # 0
          THEN Throw("failed_to_join_thread") /\ UNCHANGED main
          ELSE main' = [main EXCEPT !.ithread = @ + 1] /\ UNCHANGED failed
    /\ UNCHANGED <<config, call_log, demand, path_count_history, demand_lock, f_analysis_results,
                   thread_conn_info, arena, worker, printed, observed>>

\* analyze_test_tile_connections after launch_pthreads: the demand totals of the
\* routing nodes and the report of the phase
ReportPhase ==
    /\ failed = "none"
    /\ main.pc = "join"
    /\ main.ithread = join_count
    /\ LET routing == SetToSeq({n \in Nodes : IsRoutingNode(n)})
           total_demand ==
               SumSeq([i \in 1..Len(routing) |->
                          get_demand(routing[i], demand, use_routing_node_demand)])
               + num_far_routing_nodes
                   * (IF use_routing_node_demand # UNDEFINED
                      THEN use_routing_node_demand ELSE 0)
           metric == node_demand_metric(demand, use_routing_node_demand)
           worst == analyze_lowest_probs_pqs(f_analysis_results.lowest_probs_pqs)
           seen == [observed EXCEPT
                       !.demand_read_in = @ \cup {<<main.topological_mode, "dispatcher">>},
                       !.joined = @ \cup
                           {<<main.topological_mode, \A t \in Threads : worker[t].pc = "done">>}]
       IN  IF main.topological_mode = ENUMERATE
           THEN /\ observed' = seen
                /\ IF metric.err # "none"
                   THEN Throw(metric.err) /\ UNCHANGED <<main, printed>>
                   ELSE /\ printed' = [num_conns |-> f_analysis_results.num_conns,
                                       desired_conns |-> f_analysis_results.desired_conns,
                                       total_demand |-> total_demand,
                                       normalized_demand |-> metric.value]
                        /\ main' = [main EXCEPT !.pc = "dispatch",
                                                !.topological_mode = PROBABILITY]
                        /\ UNCHANGED failed
                /\ UNCHANGED f_analysis_results
           ELSE /\ observed' = seen
                /\ f_analysis_results' =
                       [f_analysis_results EXCEPT !.lowest_probs_pqs = worst.pqs]
                /\ printed' = [total_prob |-> f_analysis_results.total_prob,
                               max_possible_total_prob |->
                                   f_analysis_results.max_possible_total_prob,
                               worst_probabilities_metric |-> worst.result]
                /\ main' = [main EXCEPT !.pc = "finished"]
                /\ UNCHANGED failed
    /\ UNCHANGED <<config, call_log, demand, path_count_history, demand_lock, thread_conn_info,
                   arena, worker>>

(***************************************************************************)
(* The workers: enumerate_paths_from_source and analyze_connection         *)
(***************************************************************************)
\* the demand increments a traversal makes, in node order: <<node, value>>
PendingOf(contrib) ==
    LET touched == SetToSeq({n \in Nodes : contrib[n] # 0})
    IN  [i \in 1..Len(touched) |-> <<touched[i], contrib[touched[i]]>>]

AfterTraversal(w) ==
    IF w.pending # <<>> THEN "lock_demand"
    ELSE IF w.topological_mode = ENUMERATE THEN "lock_num_conns"
    ELSE "lock_total_prob"

\* a variant that counts the connection only when paths were enumerated
enumerate_returned_counting_paths(t, w, enum) ==
    /\ arena' = [arena EXCEPT ![t] = enum.ar]
    /\ observed' = [observed EXCEPT !.calls_made = @ + 1]
    /\ IF enum.err # "none"
       THEN Throw(enum.err) /\ worker' = [worker EXCEPT ![t] = w]
       ELSE /\ UNCHANGED failed
            /\ worker' = [worker EXCEPT ![t] =
                             [w EXCEPT !.pending = PendingOf(enum.contrib),
                                       !.pc = IF PendingOf(enum.contrib) # <<>>
                                              THEN "lock_demand" ELSE "lock_desired_conns"]]

\* analyze_connection, ENUMERATE: enumerate_connection_paths returned enum
enumerate_returned(t, w, enum) ==
    /\ arena' = [arena EXCEPT ![t] = enum.ar]
    /\ observed' = [observed EXCEPT !.calls_made = @ + 1]
    /\ IF enum.err # "none"
       THEN Throw(enum.err) /\ worker' = [worker EXCEPT ![t] = w]
       ELSE /\ UNCHANGED failed
            /\ worker' = [worker EXCEPT ![t] =
                             [w EXCEPT !.pending = PendingOf(enum.contrib),
                                       !.pc = IF PendingOf(enum.contrib) # <<>>
                                              THEN "lock_demand" ELSE "lock_num_conns"]]

\* analyze_connection, PROBABILITY: estimate_connection_probability returned est
estimate_returned(t, w, est, scaling_factor) ==
    /\ arena' = [arena EXCEPT ![t] = est.ar]
    /\ observed' = [observed EXCEPT !.calls_made = @ + 1,
                                    !.demand_read_in = @ \cup {<<PROBABILITY, "worker">>}]
    /\ IF est.err # "none"
       THEN /\ Throw(est.err)
            /\ worker' = [worker EXCEPT ![t] =
                             [w EXCEPT !.probability_connection_routable = est.prob]]
       ELSE IF est.prob >= 0
       THEN /\ UNCHANGED failed
            /\ worker' = [worker EXCEPT ![t] =
                             [w EXCEPT !.pending = PendingOf(est.contrib),
                                       !.probability_connection_routable = est.prob,
                                       !.scaling_factor = scaling_factor,
                                       !.probability_increment =
                                           (scaling_factor * est.prob) \div DemandUnit,
                                       !.pc = IF PendingOf(est.contrib) # <<>>
                                              THEN "lock_demand" ELSE "lock_total_prob"]]
       ELSE /\ Throw("negative_probability")
            /\ worker' = [worker EXCEPT ![t] =
                             [w EXCEPT !.probability_connection_routable = est.prob]]

\* analyze_connection up to its first update of shared state, for worker t
\* whose locals are w
analyze_connection_begin(t, w) ==
    LET conn == w.conn
        length_prob == length_probabilities[conn.conn_length]
        probs == get_sum_of_source_probabilities(conn.source_node_ind)
        num_sinks == get_num_sinks(conn.sink_node_ind)
        num_sources == get_num_sources(conn.source_node_ind)
        pre_err == IF probs.err # "none" THEN probs.err
                   ELSE IF num_sinks.err # "none" THEN num_sinks.err
                   ELSE num_sources.err
    IN  IF pre_err # "none"
        THEN /\ Throw(pre_err)
             /\ worker' = [worker EXCEPT ![t] = w]
             /\ observed' = [observed EXCEPT !.calls_made = @ + 1]
             /\ UNCHANGED arena
        ELSE IF w.topological_mode = ENUMERATE
        THEN enumerate_returned(
                 t, w,
                 enumerate_connection_paths(
                     arena[t], conn.source_node_ind, conn.sink_node_ind,
                     max_path_weight_setting, rr_weight,
                     (num_sinks.value * probs.sum * length_prob)
                         \div (DemandUnit * conn.number_conns_at_length)))
        ELSE estimate_returned(
                 t, w,
                 estimate_connection_probability(
                     arena[t], conn.source_node_ind, conn.sink_node_ind,
                     max_path_weight_setting, rr_weight, probability_mode, demand,
                     path_count_history, use_routing_node_demand),
                 (num_sinks.value * num_sources.value * length_prob)
                     \div conn.number_conns_at_length)

\* the walk of enumerate_paths_from_source reached nx: an error, the end of the
\* list, or the next call
walk_reached(t, w, nx) ==
    IF nx.err # "none"
    THEN Throw(nx.err) /\ UNCHANGED <<arena, worker, observed>>
    ELSE IF nx.conns = <<>>
    THEN /\ worker' = [worker EXCEPT ![t].pc = "done", ![t].isource = nx.isource]
         /\ UNCHANGED <<arena, failed, observed>>
    ELSE analyze_connection_begin(
             t, [w EXCEPT !.isource = nx.isource, !.todo = Tail(nx.conns),
                          !.conn = Head(nx.conns)])

\* enumerate_paths_from_source: the walk to the next analyze_connection call,
\* and that call up to its first update of shared state
NextConnection(t) ==
    /\ failed = "none"
    /\ worker[t].pc = "run"
    /\ walk_reached(t, worker[t],
                    IF worker[t].todo # <<>>
                    THEN [err |-> "none", isource |-> worker[t].isource,
                          conns |-> worker[t].todo]
                    ELSE next_item_with_calls(thread_conn_info[t], worker[t].isource))
    /\ UNCHANGED <<config, call_log, demand, path_count_history, demand_lock, f_analysis_results,
                   thread_conn_info, main, printed>>

\* a variant of the increment that does not wait for the node's lock
demand_lock_taken_as_free(lock, n) == TRUE

\* RR_Node::increment_demand takes the node's lock
demand_lock_free(lock, n) == lock[n] = Unlocked

LockDemand(t) ==
    /\ failed = "none"
    /\ worker[t].pc = "lock_demand"
    /\ LET n == Head(worker[t].pending)[1]
       IN  /\ demand_lock_free(demand_lock, n)
           /\ demand_lock' = [demand_lock EXCEPT ![n] = t]
           /\ worker' = [worker EXCEPT ![t].pc = "write_demand", ![t].reg = demand[n]]
    /\ UNCHANGED <<config, call_log, demand, path_count_history, f_analysis_results,
                   thread_conn_info, arena, main, failed, printed, observed>>

\* RR_Node::increment_demand and increment_path_count_history, then the unlock
WriteDemand(t) ==
    /\ failed = "none"
    /\ worker[t].pc = "write_demand"
    /\ LET w == worker[t]
           n == Head(w.pending)[1]
           value == Head(w.pending)[2]
           v == [w EXCEPT !.pending = Tail(@)]
       IN  /\ demand' = [demand EXCEPT ![n] = w.reg + value * demand_multiplier]
           /\ path_count_history' =
                  IF keep_path_count_history
                  THEN [path_count_history EXCEPT
                           ![n] = [e \in Nodes |->
                                      IF e \in {w.conn.source_node_ind, w.conn.sink_node_ind}
                                      THEN @[e] + value ELSE @[e]]]
                  ELSE path_count_history
           /\ demand_lock' = [demand_lock EXCEPT ![n] = Unlocked]
           /\ worker' = [worker EXCEPT ![t] = [v EXCEPT !.pc = AfterTraversal(v)]]
           /\ observed' = [observed EXCEPT
                              !.demand_added[n] = @ + value * demand_multiplier,
                              !.demand_written_in = @ \cup {w.topological_mode}]
    /\ UNCHANGED <<config, call_log, f_analysis_results, thread_conn_info, arena, main, failed,
                   printed>>

(***************************************************************************)
(* The critical sections on f_analysis_results.thread_mutex                *)
(***************************************************************************)
\* a variant of a lock that does not wait
mutex_taken_as_free(results) == TRUE

\* pthread_mutex_lock returns once no thread holds the mutex
mutex_free(results) == results.thread_mutex = Unlocked

\* the lock and the load of the field the section updates
LockResults(t, at, field, then) ==
    /\ failed = "none"
    /\ worker[t].pc = at
    /\ mutex_free(f_analysis_results)
    /\ f_analysis_results' = [f_analysis_results EXCEPT !.thread_mutex = t]
    /\ worker' = [worker EXCEPT ![t].pc = then, ![t].reg = f_analysis_results[field]]
    /\ UNCHANGED <<config, call_log, demand, path_count_history, demand_lock, thread_conn_info,
                   arena, main, failed, printed, observed>>

LockNumConns(t) == LockResults(t, "lock_num_conns", "num_conns", "write_num_conns")
LockTotalProb(t) == LockResults(t, "lock_total_prob", "total_prob", "write_total_prob")
LockMaxPossible(t) ==
    LockResults(t, "lock_max_possible", "max_possible_total_prob", "write_max_possible")
LockDesiredConns(t) ==
    LockResults(t, "lock_desired_conns", "desired_conns", "write_desired_conns")

\* the end of analyze_connection: clean_node_data_structs and the return
Returned(t) ==
    /\ arena' = [arena EXCEPT ![t] = clean_node_data_structs(arena[t])]
    /\ observed' = IF worker[t].topological_mode = ENUMERATE
                   THEN [observed EXCEPT !.enumerate_returned = @ + 1]
                   ELSE [observed EXCEPT !.probability_returned = @ + 1]

\* analyze_connection, ENUMERATE: num_conns++ and the unlock, then the cleanup
WriteNumConns(t) ==
    /\ failed = "none"
    /\ worker[t].pc = "write_num_conns"
    /\ f_analysis_results' = [f_analysis_results EXCEPT !.num_conns = worker[t].reg + 1,
                                                        !.thread_mutex = Unlocked]
    /\ worker' = [worker EXCEPT ![t].pc = "lock_desired_conns",
                                ![t].nodes_cleaned = Len(arena[t].nodes_visited)]
    /\ Returned(t)
    /\ UNCHANGED <<config, call_log, demand, path_count_history, demand_lock, thread_conn_info,
                   main, failed, printed>>

\* a variant that pushes the whole increment once
pushed_entries_once(w) ==
    [value |-> w.probability_increment, times |-> 1]

\* increment_probability_metric: what it pushes on the queue of the length,
\* [value, times]
pushed_entries(w) ==
    LET num_subsources == get_num_sources(w.conn.source_node_ind).value
        num_subsinks == get_num_sinks(w.conn.sink_node_ind).value
        div_factor == num_subsources * num_subsinks
    IN  [value |-> w.probability_increment \div div_factor, times |-> div_factor]

\* a variant whose queues keep the entries pushed first instead of the smallest
WriteTotalProbKeepingFirst(t) ==
    /\ failed = "none"
    /\ worker[t].pc = "write_total_prob"
    /\ LET w == worker[t]
           ilen == w.conn.conn_length + 1
           pq == f_analysis_results.lowest_probs_pqs[ilen]
           room == Max(0, Min(pushed_entries(w).times, pq.limit - Len(pq.entries)))
       IN  f_analysis_results' =
               [f_analysis_results EXCEPT
                   !.total_prob = w.reg + w.probability_increment,
                   !.lowest_probs_pqs[ilen] =
                       fixed_pq_push_times(@, pushed_entries(w).value, room),
                   !.thread_mutex = Unlocked]
    /\ worker' = [worker EXCEPT ![t].pc = "lock_max_possible"]
    /\ UNCHANGED <<config, call_log, demand, path_count_history, demand_lock, thread_conn_info,
                   arena, main, failed, printed, observed>>

\* increment_probability_metric: total_prob, the pushes and the unlock
WriteTotalProb(t) ==
    /\ failed = "none"
    /\ worker[t].pc = "write_total_prob"
    /\ LET w == worker[t]
           ilen == w.conn.conn_length + 1
       IN  f_analysis_results' =
               [f_analysis_results EXCEPT
                   !.total_prob = w.reg + w.probability_increment,
                   !.lowest_probs_pqs[ilen] =
                       fixed_pq_push_times(@, pushed_entries(w).value,
                                           pushed_entries(w).times),
                   !.thread_mutex = Unlocked]
    /\ worker' = [worker EXCEPT ![t].pc = "lock_max_possible"]
    /\ UNCHANGED <<config, call_log, demand, path_count_history, demand_lock, thread_conn_info,
                   arena, main, failed, printed, observed>>

\* a variant that assigns the scaling factor instead of adding it
WriteMaxPossibleAssigns(t) ==
    /\ failed = "none"
    /\ worker[t].pc = "write_max_possible"
    /\ f_analysis_results' =
           [f_analysis_results EXCEPT
               !.max_possible_total_prob = (worker[t].scaling_factor * ProbUnit) \div DemandUnit,
               !.thread_mutex = Unlocked]
    /\ worker' = [worker EXCEPT ![t].pc = "lock_desired_conns",
                                ![t].nodes_cleaned = Len(arena[t].nodes_visited)]
    /\ Returned(t)
    /\ UNCHANGED <<config, call_log, demand, path_count_history, demand_lock, thread_conn_info,
                   main, failed, printed>>

\* analyze_connection, PROBABILITY: max_possible_total_prob and the unlock, then
\* the cleanup
WriteMaxPossible(t) ==
    /\ failed = "none"
    /\ worker[t].pc = "write_max_possible"
    /\ f_analysis_results' =
           [f_analysis_results EXCEPT
               !.max_possible_total_prob =
                   worker[t].reg + (worker[t].scaling_factor * ProbUnit) \div DemandUnit,
               !.thread_mutex = Unlocked]
    /\ worker' = [worker EXCEPT ![t].pc = "lock_desired_conns",
                                ![t].nodes_cleaned = Len(arena[t].nodes_visited)]
    /\ Returned(t)
    /\ UNCHANGED <<config, call_log, demand, path_count_history, demand_lock, thread_conn_info,
                   main, failed, printed>>

\* a variant that unlocks without the increment
WriteDesiredConnsWithoutIncrement(t) ==
    /\ failed = "none"
    /\ worker[t].pc = "write_desired_conns"
    /\ f_analysis_results' = [f_analysis_results EXCEPT !.thread_mutex = Unlocked]
    /\ worker' = [worker EXCEPT ![t].pc = "run"]
    /\ UNCHANGED <<config, call_log, demand, path_count_history, demand_lock, thread_conn_info,
                   arena, main, failed, printed, observed>>

\* enumerate_paths_from_source: desired_conns++ and the unlock
WriteDesiredConns(t) ==
    /\ failed = "none"
    /\ worker[t].pc = "write_desired_conns"
    /\ f_analysis_results' = [f_analysis_results EXCEPT !.desired_conns = worker[t].reg + 1,
                                                        !.thread_mutex = Unlocked]
    /\ worker' = [worker EXCEPT ![t].pc = "run"]
    /\ UNCHANGED <<config, call_log, demand, path_count_history, demand_lock, thread_conn_info,
                   arena, main, failed, printed, observed>>

Next ==
    \/ AnalyzeFpgaArchitecture
    \/ AnalyzeTestTileConnections
    \/ CreateThread
    \/ RunLastThread
    \/ LastThreadReturns
    \/ JoinThread
    \/ ReportPhase
    \/ \E t \in Threads : NextConnection(t)
    \/ \E t \in Threads : LockDemand(t)
    \/ \E t \in Threads : WriteDemand(t)
    \/ \E t \in Threads : LockNumConns(t)
    \/ \E t \in Threads : WriteNumConns(t)
    \/ \E t \in Threads : LockTotalProb(t)
    \/ \E t \in Threads : WriteTotalProb(t)
    \/ \E t \in Threads : LockMaxPossible(t)
    \/ \E t \in Threads : WriteMaxPossible(t)
    \/ \E t \in Threads : LockDesiredConns(t)
    \/ \E t \in Threads : WriteDesiredConns(t)

Spec == Init /\ [][Next]_vars

(***************************************************************************)
(* A repeated-call run: one thread calls analyze_connection MaxCalls times *)
(* in a row on one connection, in the ENUMERATE phase and then in the      *)
(* PROBABILITY phase                                                       *)
(***************************************************************************)
\* the connections the workers of a run analyze
RepeatConns ==
    UNION {UNION {SeqRange(item_connections(info.source_node_inds[i],
                                            info.tile_coords[i]).conns) :
                     i \in 1..Len(info.source_node_inds)} :
              info \in {build_thread_conn_info(ENUMERATE)[t] : t \in Threads}}

\* the metrics a call can change
Metrics == [num_conns |-> f_analysis_results.num_conns,
            total_prob |-> f_analysis_results.total_prob,
            max_possible_total_prob |-> f_analysis_results.max_possible_total_prob,
            demand |-> demand]

\* what the call that worker w just returned from added to the metrics
MetricsDelta(before, w) ==
    [num_conns |-> f_analysis_results.num_conns - before.num_conns,
     total_prob |-> f_analysis_results.total_prob - before.total_prob,
     max_possible_total_prob |->
         f_analysis_results.max_possible_total_prob - before.max_possible_total_prob,
     demand |-> [n \in Nodes |-> demand[n] - before.demand[n]],
     pushed |-> IF w.topological_mode = PROBABILITY THEN pushed_entries(w) ELSE <<>>,
     result |-> IF w.topological_mode = PROBABILITY
                THEN w.probability_connection_routable ELSE UNDEFINED]

\* the thread is given its connection, MaxCalls times, and clean structures
RepeatDispatch ==
    /\ failed = "none"
    /\ main.pc = "dispatch"
    /\ arena' = [t \in Threads |-> FreshArena]
    /\ \E conn \in RepeatConns :
          worker' = [worker EXCEPT ![0] =
                        [IdleWorker EXCEPT !.pc = "run",
                                           !.topological_mode = main.topological_mode,
                                           !.todo = [i \in 1..MaxCalls |-> conn]]]
    /\ main' = [main EXCEPT !.pc = "repeat"]
    /\ call_log' = NoCalls
    /\ UNCHANGED <<config, demand, path_count_history, demand_lock, f_analysis_results,
                   thread_conn_info, failed, printed, observed>>

\* the next call of analyze_connection, up to its first update of shared state
RepeatCall ==
    /\ failed = "none"
    /\ main.pc = "repeat"
    /\ worker[0].pc = "run"
    /\ worker[0].todo # <<>>
    /\ call_log' = [call_log EXCEPT !.before = Metrics]
    /\ analyze_connection_begin(0, [worker[0] EXCEPT !.conn = Head(worker[0].todo),
                                                     !.todo = Tail(worker[0].todo)])
    /\ UNCHANGED <<config, demand, path_count_history, demand_lock, f_analysis_results,
                   thread_conn_info, main, printed>>

\* the call returned to its caller
RepeatReturn ==
    /\ failed = "none"
    /\ main.pc = "repeat"
    /\ worker[0].pc = "lock_desired_conns"
    /\ call_log' = [call_log EXCEPT
                       !.deltas = Append(@, MetricsDelta(call_log.before, worker[0]))]
    /\ worker' = [worker EXCEPT ![0].pc = "run"]
    /\ UNCHANGED <<config, demand, path_count_history, demand_lock, f_analysis_results,
                   thread_conn_info, arena, main, failed, printed, observed>>

\* the ENUMERATE calls are over: the PROBABILITY phase follows
RepeatNextPhase ==
    /\ failed = "none"
    /\ main.pc = "repeat"
    /\ main.topological_mode = ENUMERATE
    /\ worker[0].pc = "run"
    /\ worker[0].todo = <<>>
    /\ main' = [main EXCEPT !.pc = "dispatch", !.topological_mode = PROBABILITY]
    /\ worker' = [worker EXCEPT ![0] = IdleWorker]
    /\ UNCHANGED <<config, call_log, demand, path_count_history, demand_lock,
                   f_analysis_results, thread_conn_info, arena, failed, printed, observed>>

NextRepeat ==
    \/ AnalyzeFpgaArchitecture
    \/ RepeatDispatch
    \/ RepeatCall
    \/ RepeatReturn
    \/ RepeatNextPhase
    \/ LockDemand(0)
    \/ WriteDemand(0)
    \/ LockNumConns(0)
    \/ WriteNumConns(0)
    \/ LockTotalProb(0)
    \/ WriteTotalProb(0)
    \/ LockMaxPossible(0)
    \/ WriteMaxPossible(0)

SpecRepeat == Init /\ [][NextRepeat]_vars

(***************************************************************************)
(* A run of the queue set-up: analyze_fpga_architecture sets the entry     *)
(* limits for some conns_at_length, and probabilities are pushed on the    *)
(* queue of length 1                                                       *)
(***************************************************************************)
\* one setting of the options, for the runs that do not depend on them
OneSetting ==
    /\ rr_weight = NodeWeights(CHOOSE c \in WeightChoices : TRUE)
    /\ max_path_weight_setting = 1
    /\ probability_mode = PROPAGATE
    /\ use_routing_node_demand = UNDEFINED
    /\ analyze_core = FALSE
    /\ input_pin_probability = 0

PushValues == {0, ProbUnit \div 2, ProbUnit}

InitQueues ==
    /\ OneSetting
    /\ Constructed
    /\ \E conns \in 0..MaxConns :
          main = MainAt("set_properties",
                        [ilen \in 0..max_connection_length |->
                            IF ilen = 0 THEN 0 ELSE conns],
                        <<>>)

\* analyze_fpga_architecture: the queues and their limits
SetQueueProperties ==
    /\ main.pc = "set_properties"
    /\ f_analysis_results' =
           [f_analysis_results EXCEPT
               !.lowest_probs_pqs = lowest_probs_pqs_for(main.conns_at_length)]
    /\ main' = [main EXCEPT !.pc = "push"]
    /\ UNCHANGED <<config, call_log, demand, path_count_history, demand_lock,
                   thread_conn_info, arena, worker, failed, printed, observed>>

\* lowest_probs_pqs[1].push of a probability
PushProbability ==
    /\ main.pc = "push"
    /\ Len(call_log.deltas) < MaxPushes
    /\ \E v \in PushValues :
          /\ f_analysis_results' =
                 [f_analysis_results EXCEPT !.lowest_probs_pqs[2] = fixed_pq_push(@, v)]
          /\ call_log' = [call_log EXCEPT !.deltas = Append(@, v)]
    /\ UNCHANGED <<config, demand, path_count_history, demand_lock, thread_conn_info,
                   arena, worker, main, failed, printed, observed>>

NextQueues == SetQueueProperties \/ PushProbability

SpecQueues == InitQueues /\ [][NextQueues]_vars

(***************************************************************************)
(* A run of node_demand_metric alone, on a node list of routing nodes of   *)
(* low and of high demand and of other nodes of a demand higher still      *)
(***************************************************************************)
LowDemand == DemandUnit
HighDemand == 3 * DemandUnit
OtherDemand == 5 * DemandUnit

\* other nodes first and last, the routing nodes of high demand in between
NodeList(num_routing, num_high, num_other) ==
    [i \in 1..(num_routing + num_other) |->
        IF i = 1 /\ num_other >= 1 THEN [rr_type |-> "SOURCE", demand |-> OtherDemand]
        ELSE IF i = num_routing + num_other /\ num_other >= 2
        THEN [rr_type |-> "IPIN", demand |-> OtherDemand]
        ELSE [rr_type |-> IF i % 2 = 0 THEN "CHANX" ELSE "CHANY",
              demand |-> IF i \in 3..(2 + num_high) THEN HighDemand ELSE LowDemand]]

InitDemandMetric ==
    /\ OneSetting
    /\ Constructed
    /\ \E num_routing \in 0..MaxRoutingNodes, num_high \in 0..MaxHighDemand,
          num_other \in 0..MaxOtherNodes :
          /\ num_high <= num_routing - 2
          /\ main = MainAt("node_demand_metric", <<>>,
                           NodeList(num_routing, num_high, num_other))

\* node_demand_metric: the value it returns is printed, or it throws
NodeDemandMetric ==
    /\ failed = "none"
    /\ main.pc = "node_demand_metric"
    /\ IF node_demand_metric_on(main.rr_node).err # "none"
       THEN Throw(node_demand_metric_on(main.rr_node).err) /\ UNCHANGED <<main, printed>>
       ELSE /\ printed' = [normalized_demand |-> node_demand_metric_on(main.rr_node).value]
            /\ main' = [main EXCEPT !.pc = "returned"]
            /\ UNCHANGED failed
    /\ UNCHANGED <<config, call_log, demand, path_count_history, demand_lock,
                   thread_conn_info, f_analysis_results, arena, worker, observed>>

SpecDemandMetric == InitDemandMetric /\ [][NodeDemandMetric]_vars

(***************************************************************************)
(* A run of the enumeration of the destination tiles of one tile at one    *)
(* length alone, on a grid where a tile off the perimeter may be of        *)
(* another type than the fill type                                         *)
(***************************************************************************)
InteriorOf(size_x, size_y) == (1..(size_x - 2)) \X (1..(size_y - 2))

InitDestinations ==
    /\ OneSetting
    /\ Constructed
    /\ \E size_x \in 4..MaxGridSize, size_y \in 3..MaxGridSize, length \in 1..MaxLength :
          \E tile \in InteriorOf(size_x, size_y) :
             \E other \in {{}} \cup {{t} : t \in InteriorOf(size_x, size_y)} :
                main = [MainAt("destinations", <<>>, <<>>) EXCEPT
                           !.dest = [grid |-> [size_x |-> size_x, size_y |-> size_y,
                                               other |-> other],
                                     tile |-> tile, length |-> length,
                                     included |-> <<>>, num_conns |-> 0,
                                     offsets |-> <<>>]]

\* the two passes of enumerate_paths_from_source over the destinations of the
\* tile at the length, and conns_at_distance_from_tile for them
EnumerateDestinations ==
    /\ failed = "none"
    /\ main.pc = "destinations"
    /\ IF included_destinations(main.dest.grid, main.dest.tile, main.dest.length).err
              # "none"
       THEN Throw("not_fill_type") /\ UNCHANGED main
       ELSE IF conns_at_distance_from_tile_on(main.dest.grid, main.dest.tile[1],
                                              main.dest.tile[2], main.dest.length).err
                  # "none"
       THEN Throw("not_fill_type") /\ UNCHANGED main
       ELSE /\ main' = [main EXCEPT
                           !.pc = "returned",
                           !.dest.included =
                               included_destinations(main.dest.grid, main.dest.tile,
                                                     main.dest.length).dests,
                           !.dest.num_conns =
                               conns_at_distance_from_tile_on(
                                   main.dest.grid, main.dest.tile[1], main.dest.tile[2],
                                   main.dest.length).value,
                           !.dest.offsets = dest_offsets(main.dest.length)]
            /\ UNCHANGED failed
    /\ UNCHANGED <<config, call_log, demand, path_count_history, demand_lock,
                   thread_conn_info, f_analysis_results, arena, worker, printed, observed>>

SpecDestinations == InitDestinations /\ [][EnumerateDestinations]_vars

(***************************************************************************)
(* A run of get_ss_distances_and_adjust_max_path_weight alone on thread 0, *)
(* pass by pass, for a connection between the two tiles, over the node     *)
(* weights and the maximum path weights up to the bounds                   *)
(***************************************************************************)
InitDistances ==
    /\ \E c \in (0..1) \X (0..1) \X (0..MaxWeight) \X (0..MaxWeight) \X (0..MaxWeight) :
          rr_weight = NodeWeights(c)
    /\ max_path_weight_setting \in 1..MaxPathWeight
    /\ probability_mode = PROPAGATE
    /\ use_routing_node_demand = UNDEFINED
    /\ analyze_core = FALSE
    /\ input_pin_probability = 0
    /\ Constructed
    /\ \E conn \in {<<1, 5>>, <<4, 2>>} :
          main = [MainAt("forward", <<>>, <<>>) EXCEPT
                     !.dist = [source_node_ind |-> conn[1], sink_node_ind |-> conn[2],
                               forward_visited |-> 0,
                               adjusted_max_path_weight |-> UNDEFINED,
                               source_sink_dist |-> UNDEFINED,
                               traversals_run |-> FALSE]]

\* the arena of thread 0 with the distances and the visited list of a pass
ArenaAfter(st) ==
    [arena EXCEPT ![0] = [@ EXCEPT !.ss = st.ss, !.nodes_visited = st.nodes_visited]]

\* set_node_distances from the source, FORWARD_TRAVERSAL
SetNodeDistancesForward ==
    /\ failed = "none"
    /\ main.pc = "forward"
    /\ arena' = ArenaAfter(set_node_distances(
                    PassState(arena[0]), main.dist.source_node_ind, main.dist.sink_node_ind,
                    max_path_weight_setting, FORWARD_TRAVERSAL, rr_weight))
    /\ IF set_node_distances(
              PassState(arena[0]), main.dist.source_node_ind, main.dist.sink_node_ind,
              max_path_weight_setting, FORWARD_TRAVERSAL, rr_weight).err # "none"
       THEN Throw("pq_push") /\ UNCHANGED main
       ELSE /\ main' = [main EXCEPT !.pc = "backward",
                                    !.dist.forward_visited = Len(arena'[0].nodes_visited)]
            /\ UNCHANGED failed
    /\ UNCHANGED <<config, call_log, demand, path_count_history, demand_lock,
                   thread_conn_info, f_analysis_results, worker, printed, observed>>

\* set_node_distances from the sink, BACKWARD_TRAVERSAL
SetNodeDistancesBackward ==
    /\ failed = "none"
    /\ main.pc = "backward"
    /\ arena' = ArenaAfter(set_node_distances(
                    PassState(arena[0]), main.dist.sink_node_ind, main.dist.source_node_ind,
                    max_path_weight_setting, BACKWARD_TRAVERSAL, rr_weight))
    /\ IF set_node_distances(
              PassState(arena[0]), main.dist.sink_node_ind, main.dist.source_node_ind,
              max_path_weight_setting, BACKWARD_TRAVERSAL, rr_weight).err # "none"
       THEN Throw("pq_push") /\ UNCHANGED main
       ELSE main' = [main EXCEPT !.pc = "adjust"] /\ UNCHANGED failed
    /\ UNCHANGED <<config, call_log, demand, path_count_history, demand_lock,
                   thread_conn_info, f_analysis_results, worker, printed, observed>>

\* get_ss_distances_and_adjust_max_path_weight after its two passes: what the
\* whole of it gives on the arena as it was before them, and the test its caller
\* makes on what it returns
AdjustMaxPathWeight ==
    /\ failed = "none"
    /\ main.pc = "adjust"
    /\ IF get_ss_distances_and_adjust_max_path_weight(
              PassState(FreshArena), main.dist.source_node_ind, main.dist.sink_node_ind,
              max_path_weight_setting, rr_weight).err # "none"
       THEN Throw("dist_mismatch") /\ UNCHANGED main
       ELSE /\ main' = [main EXCEPT
                           !.pc = "returned",
                           !.dist.adjusted_max_path_weight =
                               get_ss_distances_and_adjust_max_path_weight(
                                   PassState(FreshArena), main.dist.source_node_ind,
                                   main.dist.sink_node_ind, max_path_weight_setting,
                                   rr_weight).max_path_weight,
                           !.dist.source_sink_dist =
                               get_ss_distances_and_adjust_max_path_weight(
                                   PassState(FreshArena), main.dist.source_node_ind,
                                   main.dist.sink_node_ind, max_path_weight_setting,
                                   rr_weight).min_dist,
                           !.dist.traversals_run =
                               traversals_run(
                                   get_ss_distances_and_adjust_max_path_weight(
                                       PassState(FreshArena), main.dist.source_node_ind,
                                       main.dist.sink_node_ind, max_path_weight_setting,
                                       rr_weight).max_path_weight,
                                   get_ss_distances_and_adjust_max_path_weight(
                                       PassState(FreshArena), main.dist.source_node_ind,
                                       main.dist.sink_node_ind, max_path_weight_setting,
                                       rr_weight).min_dist)]
            /\ UNCHANGED failed
    /\ arena' = ArenaAfter(get_ss_distances_and_adjust_max_path_weight(
                    PassState(FreshArena), main.dist.source_node_ind,
                    main.dist.sink_node_ind, max_path_weight_setting, rr_weight))
    /\ UNCHANGED <<config, call_log, demand, path_count_history, demand_lock,
                   thread_conn_info, f_analysis_results, worker, printed, observed>>

NextDistances ==
    \/ SetNodeDistancesForward
    \/ SetNodeDistancesBackward
    \/ AdjustMaxPathWeight

SpecDistances == InitDistances /\ [][NextDistances]_vars

(***************************************************************************)
(* Properties                                                              *)
(***************************************************************************)
\* the positions of a worker inside analyze_connection, after the traversals
InProbabilityUpdate == {"lock_total_prob", "write_total_prob", "lock_max_possible",
                        "write_max_possible"}
InDemandUpdate == {"lock_demand", "write_demand"}
InEnumerateUpdate == {"lock_num_conns", "write_num_conns"}
\* the positions between the return of analyze_connection and desired_conns++
AfterReturn == {"lock_desired_conns", "write_desired_conns"}

\* C1: a PROBABILITY call gets past estimate_connection_probability only with a
\* value in [0, 1]; a value outside it ends the run with the range error before
\* the worker touches total_prob or the queues, so every queue entry is in [0, 1].
C1_EstimateInRange ==
    /\ \A t \in Threads :
          LET p == worker[t].probability_connection_routable
          IN  /\ (worker[t].topological_mode = PROBABILITY /\ worker[t].pc # "run")
                    => (p >= 0 /\ p <= ProbUnit)
              /\ (p < 0 \/ p > ProbUnit)
                    => (failed \in {"prob_lt_0", "prob_gt_1"} /\ worker[t].pc = "run")
    /\ \A i \in DOMAIN f_analysis_results.lowest_probs_pqs :
          \A j \in DOMAIN f_analysis_results.lowest_probs_pqs[i].entries :
              LET e == f_analysis_results.lowest_probs_pqs[i].entries[j]
              IN  e >= 0 /\ e <= ProbUnit

\* C1 witness: a worker came back from the estimate with a value strictly between
\* 0 and 1 and is adding it to total_prob
C1_Witness ==
    \E t \in Threads :
        /\ worker[t].pc = "write_total_prob"
        /\ worker[t].probability_connection_routable > 0
        /\ worker[t].probability_connection_routable < ProbUnit

\* the ENUMERATE workers that have counted their connection in num_conns and not
\* yet in desired_conns
CountedNotDesired ==
    {t \in Threads : worker[t].topological_mode = ENUMERATE /\ worker[t].pc \in AfterReturn}

\* C2 as stated: desired_conns >= num_conns >= 0 in every reachable state
C2_AsStated ==
    /\ f_analysis_results.num_conns >= 0
    /\ f_analysis_results.desired_conns >= f_analysis_results.num_conns

\* C2, amended: num_conns >= 0 always, and num_conns exceeds desired_conns by at
\* most the number of workers that are between their num_conns++ and their
\* desired_conns++; so desired_conns >= num_conns whenever no worker is there.
C2_DesiredLagsByWorkersInFlight ==
    /\ f_analysis_results.num_conns >= 0
    /\ f_analysis_results.desired_conns + Cardinality(CountedNotDesired)
           >= f_analysis_results.num_conns

\* C2 witness: a connection is fully counted and a worker is between the two
\* increments of the next one
C2_Witness ==
    /\ f_analysis_results.desired_conns >= 1
    /\ Cardinality(CountedNotDesired) = 1
    /\ f_analysis_results.num_conns = f_analysis_results.desired_conns + 1

\* the scaling factors that workers have added to total_prob (times their
\* estimate) and not yet to max_possible_total_prob
ScalingInFlight ==
    SumSeq([i \in 1..NumThreads |->
               IF worker[i - 1].pc \in {"lock_max_possible", "write_max_possible"}
               THEN (worker[i - 1].scaling_factor * ProbUnit) \div DemandUnit
               ELSE 0])

\* C3 as stated: total_prob <= max_possible_total_prob in every reachable state
C3_AsStated ==
    f_analysis_results.total_prob <= f_analysis_results.max_possible_total_prob

\* C3, amended: total_prob exceeds max_possible_total_prob by at most the scaling
\* factors of the workers that are between the two critical sections; so
\* total_prob <= max_possible_total_prob whenever no worker is there.
C3_TotalWithinMaxPlusInFlight ==
    f_analysis_results.total_prob
        <= f_analysis_results.max_possible_total_prob + ScalingInFlight

\* C3 witness: one connection is fully counted, and a worker that estimated a
\* positive probability is between the two critical sections
C3_Witness ==
    /\ f_analysis_results.max_possible_total_prob > 0
    /\ \E t \in Threads :
          /\ worker[t].pc = "lock_max_possible"
          /\ worker[t].probability_increment > 0
    /\ f_analysis_results.total_prob > f_analysis_results.max_possible_total_prob

\* C4: once analyze_connection has returned, the worker's whole arena is as
\* allocated: no flag, distance, hop count or bucket of any node survives the
\* cleanup and nodes_visited is empty, whatever the mode and the pair.
C4_ArenaCleanAfterReturn ==
    \A t \in Threads :
        (\/ worker[t].pc \in AfterReturn \cup {"done"}
         \/ worker[t].pc = "run" /\ failed = "none")
            => arena[t] = FreshArena

\* C4 witness: a call that listed nodes in nodes_visited has returned (for an
\* unreachable pair too: the passes list nodes although no traversal runs)
C4_Witness ==
    /\ \E t \in Threads :
          /\ worker[t].pc \in AfterReturn
          /\ worker[t].nodes_cleaned > 0
          /\ worker[t].topological_mode = PROBABILITY
          /\ worker[t].probability_connection_routable = 0
    /\ \E t \in Threads :
          /\ worker[t].pc \in AfterReturn
          /\ worker[t].nodes_cleaned >= 6
          /\ worker[t].probability_connection_routable > 0

\* the distances the two passes left at the ends of worker t's connection
SinkSourceDistance(t) == arena[t].ss[worker[t].conn.sink_node_ind].source_distance
SourceSinkDistance(t) == arena[t].ss[worker[t].conn.source_node_ind].sink_distance

\* C6: a call that got past the distance passes has the forward distance at the
\* sink equal to the backward distance at the source; when they differ the run
\* ends with the mismatch error in a worker that has run no traversal (its
\* buckets are untouched) and queued no update.
C6_DistancesAgreeOrError ==
    /\ \A t \in Threads :
          worker[t].pc \in InDemandUpdate \cup InEnumerateUpdate \cup InProbabilityUpdate
              => SinkSourceDistance(t) = SourceSinkDistance(t)
    /\ failed = "dist_mismatch"
          => \E t \in Threads :
                /\ worker[t].pc = "run"
                /\ worker[t].conn # NoConn
                /\ SinkSourceDistance(t) # SourceSinkDistance(t)
                /\ arena[t].node_topo_inf = alloc_node_topo_inf
                /\ worker[t].pending = <<>>

\* C6 witness: the run ended with the mismatch error, both distances being set
C6_Witness ==
    /\ failed = "dist_mismatch"
    /\ \E t \in Threads :
          /\ worker[t].conn # NoConn
          /\ SinkSourceDistance(t) > 0
          /\ SourceSinkDistance(t) >= 0
          /\ SinkSourceDistance(t) # SourceSinkDistance(t)

\* C7: whenever a worker is in the PROBABILITY phase, the dispatcher has joined
\* the ENUMERATE workers when all of them had finished, and no ENUMERATE worker
\* is still running.
C7_PhasesSequential ==
    \A t \in Threads :
        (worker[t].topological_mode = PROBABILITY /\ worker[t].pc # "idle")
            => /\ <<ENUMERATE, TRUE>> \in observed.joined
               /\ <<ENUMERATE, FALSE>> \notin observed.joined
               /\ \A u \in Threads :
                     worker[u].topological_mode = ENUMERATE
                         => worker[u].pc \in {"idle", "done"}

\* C7 witness: a PROBABILITY call is updating the metrics after the ENUMERATE
\* workers counted their connections
C7_Witness ==
    /\ \E t \in Threads : worker[t].topological_mode = PROBABILITY
                          /\ worker[t].pc \in InProbabilityUpdate
    /\ f_analysis_results.num_conns >= 2

\* C8 as stated: demand and path_count_history are written only in the ENUMERATE
\* phase and read only in the PROBABILITY phase
C8_AsStated ==
    /\ \A m \in observed.demand_written_in : m = ENUMERATE
    /\ \A r \in observed.demand_read_in : r[1] = PROBABILITY

\* C8, amended: workers write demand and path_count_history in the ENUMERATE
\* phase, and in the PROBABILITY phase only under RELIABILITY_POLYNOMIAL; the
\* only workers that read demand are PROBABILITY workers; the dispatcher reads it
\* at the end of either phase, after it joined workers that had all finished.
C8_WritesAndReadsByPhase ==
    /\ PROBABILITY \in observed.demand_written_in
          => probability_mode = RELIABILITY_POLYNOMIAL
    /\ \A r \in observed.demand_read_in :
          /\ r[2] = "worker" => r[1] = PROBABILITY
          /\ r[2] = "dispatcher" => <<r[1], FALSE>> \notin observed.joined

\* C8 witness: the dispatcher read the demand at the end of ENUMERATE and a
\* RELIABILITY_POLYNOMIAL worker wrote it in PROBABILITY
C8_Witness ==
    /\ <<ENUMERATE, "dispatcher">> \in observed.demand_read_in
    /\ PROBABILITY \in observed.demand_written_in

InCriticalSection == {"write_num_conns", "write_total_prob", "write_max_possible",
                      "write_desired_conns"}
AtLock == {"lock_num_conns", "lock_total_prob", "lock_max_possible",
           "lock_desired_conns"}

\* the dispatcher is past the join of a phase (or before the first)
WorkersJoined ==
    \/ main.pc \in {"dispatch", "finished"}
    \/ main.pc = "join" /\ main.ithread = NumThreads - 1

\* C9: a worker is between the load and the store of a field of
\* f_analysis_results only while it holds thread_mutex, and no update is lost:
\* once the workers are joined, num_conns is the number of ENUMERATE calls that
\* returned and desired_conns the number of analyze_connection calls made.
C9_UpdatesUnderMutex ==
    /\ \A t \in Threads :
          worker[t].pc \in InCriticalSection => f_analysis_results.thread_mutex = t
    /\ WorkersJoined
          => /\ f_analysis_results.num_conns = observed.enumerate_returned
             /\ f_analysis_results.desired_conns = observed.calls_made

\* C9 witness: a worker holds the mutex inside a critical section while another
\* waits at its lock
C9_Witness ==
    \E t, u \in Threads :
        /\ t # u
        /\ worker[t].pc \in InCriticalSection
        /\ worker[u].pc \in AtLock
        /\ f_analysis_results.thread_mutex = t

C5_RepeatedCallSameDeltas ==
    \A i \in 1..(Len(call_log.deltas) - 1) : call_log.deltas[i] = call_log.deltas[i + 1]

\* C5 witness: two PROBABILITY calls on a connection returned, each having added
\* to total_prob
C5_Witness ==
    /\ main.topological_mode = PROBABILITY
    /\ Len(call_log.deltas) >= 2
    /\ call_log.deltas[2].total_prob > 0
    /\ call_log.deltas[2].pushed.times > 0

\* the connections a thread analyzes, in the order of its walk
RECURSIVE thread_connections(_, _)
connections_from(info, nx) ==
    IF nx.err # "none" \/ nx.conns = <<>> THEN <<>>
    ELSE nx.conns \o thread_connections(info, nx.isource)
thread_connections(info, isource) ==
    connections_from(info, next_item_with_calls(info, isource))

\* the connections of all threads, thread by thread
RECURSIVE all_connections(_, _)
all_connections(tci, ithread) ==
    IF ithread >= NumThreads THEN <<>>
    ELSE thread_connections(tci[ithread], 1) \o all_connections(tci, ithread + 1)

\* what a PROBABILITY call on conn pushes, computed on clean structures with the
\* node demands as they are: [value, times]
pushed_for(conn, est) ==
    pushed_entries(
        [conn |-> conn,
         probability_increment |->
             (((get_num_sinks(conn.sink_node_ind).value
                  * get_num_sources(conn.source_node_ind).value
                  * length_probabilities[conn.conn_length])
                  \div conn.number_conns_at_length) * est.prob) \div DemandUnit])

\* the queues after the calls on conns[i..], one after the other
RECURSIVE pqs_after_calls(_, _, _)
pqs_after_push(pqs, conns, i, pushed) ==
    pqs_after_calls(
        [pqs EXCEPT ![conns[i].conn_length + 1] =
                        fixed_pq_push_times(@, pushed.value, pushed.times)],
        conns, i + 1)
pqs_after_calls(pqs, conns, i) ==
    IF i > Len(conns) THEN pqs
    ELSE pqs_after_push(
             pqs, conns, i,
             pushed_for(conns[i],
                        estimate_connection_probability(
                            FreshArena, conns[i].source_node_ind, conns[i].sink_node_ind,
                            max_path_weight_setting, rr_weight, probability_mode, demand,
                            path_count_history, use_routing_node_demand)))

EmptyQueues ==
    [i \in DOMAIN f_analysis_results.lowest_probs_pqs |->
        [f_analysis_results.lowest_probs_pqs[i] EXCEPT !.entries = <<>>]]

\* the dispatcher has joined the workers of the phase and not yet reported
JoinedPhase(mode) ==
    /\ main.pc = "join"
    /\ main.ithread = NumThreads - 1
    /\ main.topological_mode = mode

\* C11: whatever the interleaving was, once the workers of a phase are joined the
\* counters and the queues are what the work lists determine: num_conns is the
\* number of connections listed for ENUMERATE, desired_conns that number after
\* ENUMERATE and that number plus the number listed for PROBABILITY after
\* PROBABILITY, and every queue holds what pushing the estimates of the
\* connections listed for PROBABILITY one after the other leaves in it.
C11_FinalMetricsFixedByWorkLists ==
    /\ JoinedPhase(ENUMERATE)
          => /\ f_analysis_results.num_conns = Len(all_connections(thread_conn_info, 0))
             /\ f_analysis_results.desired_conns = Len(all_connections(thread_conn_info, 0))
    /\ JoinedPhase(PROBABILITY)
          => /\ f_analysis_results.num_conns
                    = Len(all_connections(build_thread_conn_info(ENUMERATE), 0))
             /\ f_analysis_results.desired_conns
                    = Len(all_connections(build_thread_conn_info(ENUMERATE), 0))
                      + Len(all_connections(thread_conn_info, 0))
             /\ f_analysis_results.lowest_probs_pqs
                    = pqs_after_calls(EmptyQueues, all_connections(thread_conn_info, 0), 1)

\* C11 witness: the PROBABILITY workers are joined, each thread had a connection,
\* and a queue retains a positive estimate
C11_Witness ==
    /\ JoinedPhase(PROBABILITY)
    /\ \A t \in Threads : Len(thread_connections(thread_conn_info[t], 1)) >= 1
    /\ \E i \in DOMAIN f_analysis_results.lowest_probs_pqs :
          /\ f_analysis_results.lowest_probs_pqs[i].entries # <<>>
          /\ f_analysis_results.lowest_probs_pqs[i].entries[1] > 0

\* the tiles on the work lists of the threads
ListedTiles ==
    UNION {SeqRange(thread_conn_info[t].tile_coords) : t \in Threads}

\* InCore as the spec words it for a 12 x 12 grid
InCoreOfGrid(tile) ==
    /\ CORE_OFFSET <= tile[1] /\ tile[1] <= grid_size_x - 1 - CORE_OFFSET
    /\ CORE_OFFSET <= tile[2] /\ tile[2] <= grid_size_y - 1 - CORE_OFFSET

\* the work lists of the current phase are built
Dispatched == main.pc \in {"create", "own_list", "join"}

\* C12 as stated: under analyze_core a test tile outside the core is on no work
\* list in either phase
C12_AsStated ==
    (analyze_core /\ Dispatched)
        => \A tile \in ListedTiles : InCoreOfGrid(tile)

\* C12, amended: under analyze_core a test tile outside the core is on no work list
\* of the PROBABILITY phase, so it adds nothing to the probability metrics; the
\* work lists of the ENUMERATE phase hold every test tile, in the core or not,
\* and so do the lists of both phases without analyze_core. On a 12 x 12 grid the
\* core is the tiles with x and y in 3..8.
C12_CoreFilterInProbabilityOnly ==
    /\ (analyze_core /\ Dispatched /\ main.topological_mode = PROBABILITY)
          => /\ \A tile \in ListedTiles : InCoreOfGrid(tile)
             /\ (ListedTiles = {}
                    => /\ f_analysis_results.total_prob = 0
                       /\ f_analysis_results.max_possible_total_prob = 0
                       /\ \A i \in DOMAIN f_analysis_results.lowest_probs_pqs :
                              f_analysis_results.lowest_probs_pqs[i].entries = <<>>)
    /\ (Dispatched /\ (main.topological_mode = ENUMERATE \/ ~analyze_core))
          => ListedTiles = SeqRange(test_tile_coords)
    /\ \A x, y \in 0..11 :
          ~outside_core_on(<<x, y>>, 12, 12) <=> (x \in 3..8 /\ y \in 3..8)

\* C12 witness: under analyze_core the PROBABILITY lists are without the tiles
\* outside the core, whose ENUMERATE calls have loaded the nodes
C12_Witness ==
    /\ analyze_core
    /\ Dispatched
    /\ main.topological_mode = PROBABILITY
    /\ \E tile \in SeqRange(test_tile_coords) : tile \notin ListedTiles
    /\ \E n \in Nodes : demand[n] > 0

\* C13: a call of analyze_connection whose source is an IPIN (of non-zero pin
\* probability: the others are never called) does not end the run with a
\* node-type error.
C13_IpinSourceIsAnalyzed ==
    \A t \in Threads :
        (worker[t].conn # NoConn /\ rr_type[worker[t].conn.source_node_ind] = "IPIN")
            => failed \notin {"expected_source", "unexpected_node_type"}

\* how often v occurs in the sequence q, and how many entries of q are below v
Occurrences(q, v) == Cardinality({i \in 1..Len(q) : q[i] = v})
EntriesBelow(q, v) == Cardinality({i \in 1..Len(q) : q[i] < v})

\* entries are the k smallest of the values pushed, in ascending order
KSmallestOf(entries, pushed, k) ==
    /\ \A i \in 1..(Len(entries) - 1) : entries[i] <= entries[i + 1]
    /\ \A v \in PushValues :
          Occurrences(entries, v)
              = Min(Occurrences(pushed, v), Max(0, k - EntriesBelow(pushed, v)))
    /\ Len(entries) = Min(k, Len(pushed))

\* C14 as stated: the capacity of the queue of a length with connections is the
\* tenth of their number rounded up
C14_AsStated ==
    (main.pc = "push" /\ main.conns_at_length[1] > 0)
        => f_analysis_results.lowest_probs_pqs[2].limit
               = (main.conns_at_length[1] + 9) \div 10

\* C14, amended: the capacity of the queue of a length with connections is the
\* tenth of their number rounded down (none for fewer than 10 connections), and
\* the queue holds that many of the smallest probabilities pushed to it.
C14_CapacityIsTenthRoundedDown ==
    (main.pc = "push" /\ main.conns_at_length[1] > 0)
        => /\ f_analysis_results.lowest_probs_pqs[2].limit
                  = main.conns_at_length[1] \div 10
           /\ KSmallestOf(f_analysis_results.lowest_probs_pqs[2].entries,
                          call_log.deltas, main.conns_at_length[1] \div 10)

\* C14 witness: 15 connections, three probabilities pushed, the smallest retained
C14_Witness ==
    /\ main.pc = "push"
    /\ main.conns_at_length[1] = 15
    /\ call_log.deltas = <<ProbUnit, 0, ProbUnit \div 2>>
    /\ f_analysis_results.lowest_probs_pqs[2].entries = <<0>>

\* the demands of the CHANX and CHANY nodes of the node list of the run
RoutingDemandsOf(rr_node) ==
    [i \in {j \in 1..Len(rr_node) : rr_node[j].rr_type \in {"CHANX", "CHANY"}} |->
        rr_node[i].demand]

\* the sum of the k largest values of the function f
SumOfLargest(f, k) ==
    LET above(v) == Cardinality({i \in DOMAIN f : f[i] > v})
        same(v) == Cardinality({i \in DOMAIN f : f[i] = v})
        taken(v) == Min(same(v), Max(0, k - above(v)))
    IN  taken(LowDemand) * LowDemand + taken(HighDemand) * HighDemand
        + taken(OtherDemand) * OtherDemand + taken(0) * 0

\* the run of node_demand_metric ended: it returned or threw
MetricEnded == main.pc = "returned" \/ failed # "none"

\* C15 as stated: with at least one routing node the metric is the mean of the k
\* largest routing node demands, k the twentieth of their number rounded up
C15_AsStated ==
    (MetricEnded /\ DOMAIN RoutingDemandsOf(main.rr_node) # {})
        => /\ failed = "none"
           /\ printed.normalized_demand
                  * ((Cardinality(DOMAIN RoutingDemandsOf(main.rr_node)) + 19) \div 20)
              = SumOfLargest(RoutingDemandsOf(main.rr_node),
                             (Cardinality(DOMAIN RoutingDemandsOf(main.rr_node)) + 19) \div 20)

\* C15, amended: k is the twentieth of the number of CHANX and CHANY nodes rounded
\* down; with fewer than 20 of them node_demand_metric throws, otherwise it
\* returns the mean of the k largest demands among the CHANX and CHANY nodes, and
\* the nodes of other types have no part in it.
C15_MeanOfTwentiethRoundedDown ==
    MetricEnded
        => IF Cardinality(DOMAIN RoutingDemandsOf(main.rr_node)) < 20
           THEN failed = "analyze_no_nodes"
           ELSE /\ failed = "none"
                /\ printed.normalized_demand
                       * (Cardinality(DOMAIN RoutingDemandsOf(main.rr_node)) \div 20)
                   = SumOfLargest(RoutingDemandsOf(main.rr_node),
                                  Cardinality(DOMAIN RoutingDemandsOf(main.rr_node)) \div 20)

\* C15 witness: 40 routing nodes, one of high demand, and two other nodes of a
\* demand higher still: the mean of the high and a low demand is returned
C15_Witness ==
    /\ main.pc = "returned"
    /\ Cardinality(DOMAIN RoutingDemandsOf(main.rr_node)) = 40
    /\ Len(main.rr_node) = 42
    /\ Cardinality({i \in DOMAIN main.rr_node : main.rr_node[i].demand = HighDemand}) = 1
    /\ printed.normalized_demand = 2 * DemandUnit

\* launch_pthreads has returned to analyze_test_tile_connections
LaunchReturned == main.pc = "join" /\ main.ithread = NumThreads - 1

\* the launches begun so far: one in ENUMERATE, two in PROBABILITY
LaunchesBegun == IF main.topological_mode = ENUMERATE THEN 1 ELSE 2

\* C16: when launch_pthreads returns, enumerate_paths_from_source has run once in
\* this launch on the list of every thread and has finished on each, the lists
\* but the last on created threads and the last on the calling thread, which
\* waits for it; and after a failed pthread_create or pthread_join the launch
\* never returns.
C16_EveryListOnceAndJoined ==
    /\ (main.pc \in {"create", "own_list", "join"})
          => \A t \in Threads : observed.runs[t] \in {LaunchesBegun - 1, LaunchesBegun}
    /\ (main.pc = "own_list" /\ failed = "none")
          => worker[NumThreads - 1].pc # "idle"
    /\ LaunchReturned
          => /\ \A t \in Threads : observed.runs[t] = LaunchesBegun
             /\ \A t \in Threads : worker[t].pc = "done"
             /\ observed.on_new_thread = Threads \ {NumThreads - 1}
    /\ failed = "failed_to_create_thread"
          => main.pc = "create" /\ main.ithread < NumThreads - 1
    /\ failed = "failed_to_join_thread"
          => main.pc = "join" /\ main.ithread < NumThreads - 1

\* C16 witness: the launch of the PROBABILITY phase has returned, every list
\* having been walked a second time
C16_Witness ==
    /\ LaunchReturned
    /\ main.topological_mode = PROBABILITY
    /\ failed = "none"
    /\ \A t \in Threads : observed.runs[t] = 2

\* the tiles strictly inside the grid of the run at the Manhattan distance of the
\* run from its tile, and those of them of the fill type
InteriorAtLength ==
    {t \in InteriorOf(main.dest.grid.size_x, main.dest.grid.size_y) :
        get_dx_plus_dy(main.dest.tile, t[1], t[2]) = main.dest.length}
FillAtLength == InteriorAtLength \ main.dest.grid.other

\* the enumeration of the destinations ended: it returned or threw
DestinationsEnded == main.pc = "returned" \/ (main.pc = "destinations" /\ failed # "none")

\* C17 as stated: the destinations analyzed are the tiles at the length that are
\* strictly inside the grid and of the fill type, the others being passed over
C17_AsStated ==
    DestinationsEnded
        => /\ failed = "none"
           /\ SeqRange(main.dest.included) = FillAtLength

\* C17, amended: a tile at the length is a destination iff it is strictly inside
\* the grid; if one of these is not of the fill type the enumeration throws and
\* no destination is analyzed, otherwise each of them is analyzed once and the
\* connections at the length are counted as their number times the receivers.
C17_InteriorDestinationsOrError ==
    DestinationsEnded
        => IF FillAtLength # InteriorAtLength
           THEN failed = "not_fill_type" /\ main.dest.included = <<>>
           ELSE /\ failed = "none"
                /\ SeqRange(main.dest.included) = InteriorAtLength
                /\ Len(main.dest.included) = Cardinality(InteriorAtLength)
                /\ main.dest.num_conns = Cardinality(InteriorAtLength) * get_num_receivers

\* C17 witness: at length 2 one of three tiles strictly inside the grid is not
\* of the fill type, and the enumeration threw with no destination analyzed
C17_Witness ==
    /\ failed = "not_fill_type"
    /\ main.pc = "destinations"
    /\ main.dest.length = 2
    /\ Cardinality(InteriorAtLength) = 3
    /\ Cardinality(FillAtLength) = 2
    /\ main.dest.included = <<>>

\* a run of the distance passes alone: its passes have ended
InDistanceRun == main.pc \in {"forward", "backward", "adjust", "returned"}
ForwardPassEnded ==
    main.pc \in {"backward", "adjust", "returned"} \/ (main.pc = "forward" /\ failed # "none")
BackwardPassEnded ==
    main.pc \in {"adjust", "returned"} \/ (main.pc = "backward" /\ failed # "none")

\* the nodes the forward pass visited
ForwardVisited == {n \in Nodes : arena[0].ss[n].visited_from_source}

\* the parents of node n among the forward-visited nodes
VisitedParents(n) ==
    {p \in ForwardVisited : \E i \in 1..Len(out_edges[p]) : out_edges[p][i] = n}

\* the place of node n in the list of the nodes the forward pass popped
ForwardPlace(n) ==
    CHOOSE i \in 0..main.dist.forward_visited :
        IF \E j \in 1..main.dist.forward_visited : arena[0].nodes_visited[j] = n
        THEN i > 0 /\ arena[0].nodes_visited[i] = n
        ELSE i = 0

\* C18: after the forward pass the source_distance of every node it visited is
\* the least weight of a path to it from the source through visited nodes, the
\* weights of the nodes after the source summed: it is 0 at the source, no edge
\* between visited nodes offers a node less than it has, and every other visited
\* node has its distance from a visited parent popped before it, so that the
\* distance is the weight of a path from the source.
C18_ForwardDistancesAreLeast ==
    (InDistanceRun /\ ForwardPassEnded /\ failed = "none")
        => /\ arena[0].ss[main.dist.source_node_ind].source_distance = 0
           /\ \A n \in ForwardVisited : \A p \in VisitedParents(n) :
                 arena[0].ss[n].source_distance
                     <= arena[0].ss[p].source_distance + rr_weight[n]
           /\ \A n \in ForwardVisited \ {main.dist.source_node_ind} :
                 /\ ForwardPlace(n) > 0
                 /\ \E p \in VisitedParents(n) :
                       /\ ForwardPlace(p) > 0
                       /\ ForwardPlace(p) < ForwardPlace(n)
                       /\ arena[0].ss[n].source_distance
                              = arena[0].ss[p].source_distance + rr_weight[n]

\* C18 witness: the forward pass visited a node with two visited parents at
\* different distances, the nearer of them later in the list of node 1 or 4
C18_Witness ==
    /\ main.pc = "backward"
    /\ arena[0].ss[6].visited_from_source
    /\ {7, 8} \subseteq VisitedParents(6)
    /\ arena[0].ss[8].source_distance < arena[0].ss[7].source_distance
    /\ arena[0].ss[6].source_distance = arena[0].ss[8].source_distance

\* C19 as stated: once the maximum path weight is adjusted, the source_distance
\* of every forward-visited node is within the adjusted weight
C19_AsStated ==
    main.pc = "returned"
        => \A n \in ForwardVisited :
              /\ arena[0].ss[n].source_distance >= 0
              /\ arena[0].ss[n].source_distance <= main.dist.adjusted_max_path_weight

\* C19, amended: the source_distance of every forward-visited node is at least 0
\* and at most the maximum path weight the passes were given, from the forward
\* pass on; the adjusted weight is at most that weight and bounds the distance
\* of the sink only.
C19_DistancesWithinGivenWeight ==
    InDistanceRun
        => /\ \A n \in ForwardVisited :
                 /\ arena[0].ss[n].source_distance >= 0
                 /\ arena[0].ss[n].source_distance <= max_path_weight_setting
           /\ main.pc = "returned"
                 => /\ main.dist.adjusted_max_path_weight <= max_path_weight_setting
                    /\ arena[0].ss[main.dist.sink_node_ind].source_distance
                           <= main.dist.adjusted_max_path_weight

\* C19 witness: the weight was adjusted below the given one, and a forward-visited
\* node lies farther from the source than the adjusted weight
C19_Witness ==
    /\ main.pc = "returned"
    /\ main.dist.adjusted_max_path_weight < max_path_weight_setting
    /\ \E n \in ForwardVisited :
          arena[0].ss[n].source_distance > main.dist.adjusted_max_path_weight

\* the nodes the backward pass popped, and their children
BackwardPopped ==
    {arena[0].nodes_visited[i] :
        i \in (main.dist.forward_visited + 1)..Len(arena[0].nodes_visited)}
BackwardChildren ==
    {n \in Nodes : \E p \in BackwardPopped : \E i \in 1..Len(in_edges[p]) : in_edges[p][i] = n}

\* the test of the backward pass on node n at sink distance sink_distance
PassesBackwardTest(n, sink_distance) ==
    /\ arena[0].ss[n].visited_from_source
    /\ arena[0].ss[n].source_distance + sink_distance - rr_weight[n]
           <= max_path_weight_setting

\* C20: after the backward pass every node but the sink that is visited_from_sink
\* is visited_from_source and has source_distance + sink_distance - weight within
\* the maximum path weight, and every node not visited_from_sink -- the children
\* that failed the test among them -- has an undefined sink_distance and was
\* never popped, so never enqueued.
C20_BackwardMarksOnlyLegal ==
    (InDistanceRun /\ BackwardPassEnded)
        => /\ \A n \in Nodes \ {main.dist.sink_node_ind} :
                 arena[0].ss[n].visited_from_sink
                     => PassesBackwardTest(n, arena[0].ss[n].sink_distance)
           /\ \A n \in Nodes :
                 ~arena[0].ss[n].visited_from_sink
                     => /\ arena[0].ss[n].sink_distance = UNDEFINED
                        /\ n \notin BackwardPopped
           /\ \A n \in BackwardChildren \ {main.dist.sink_node_ind} :
                 arena[0].ss[n].visited_from_sink
                     <=> \E p \in BackwardPopped :
                            /\ \E i \in 1..Len(in_edges[p]) : in_edges[p][i] = n
                            /\ PassesBackwardTest(n, arena[0].ss[p].sink_distance
                                                     + rr_weight[n])

\* C20 witness: the backward pass marked a node at the bound exactly and left
\* un-marked a forward-visited child that was beyond it
C20_Witness ==
    /\ main.pc = "adjust"
    /\ \E n \in Nodes \ {main.dist.sink_node_ind} :
          /\ arena[0].ss[n].visited_from_sink
          /\ arena[0].ss[n].source_distance + arena[0].ss[n].sink_distance - rr_weight[n]
                 = max_path_weight_setting
    /\ \E n \in BackwardChildren :
          /\ arena[0].ss[n].visited_from_source
          /\ ~arena[0].ss[n].visited_from_sink

\* the least integer not below 1.3 times min_dist
LeastNotBelowFlex(min_dist) ==
    CHOOSE c \in (-2)..(2 * MaxPathWeight + 2) :
        /\ 10 * c >= 13 * min_dist
        /\ 10 * (c - 1) < 13 * min_dist

\* C21: the maximum path weight returned for a connection is the lesser of the
\* given one and 1.3 times the source to sink distance rounded up; for a sink
\* that was reached it lies between that distance and the given weight, and for a
\* sink that was not reached (distance UNDEFINED) it is not positive and the
\* traversals are not run.
C21_AdjustedWeightIsMinOfGivenAndFlex ==
    main.pc = "returned"
        => /\ main.dist.source_sink_dist
                  = arena[0].ss[main.dist.sink_node_ind].source_distance
           /\ main.dist.adjusted_max_path_weight
                  = Min(max_path_weight_setting, LeastNotBelowFlex(main.dist.source_sink_dist))
           /\ arena[0].ss[main.dist.sink_node_ind].visited_from_source
                  => /\ main.dist.source_sink_dist <= main.dist.adjusted_max_path_weight
                     /\ main.dist.adjusted_max_path_weight <= max_path_weight_setting
           /\ ~arena[0].ss[main.dist.sink_node_ind].visited_from_source
                  => /\ main.dist.source_sink_dist = UNDEFINED
                     /\ main.dist.adjusted_max_path_weight <= 0
                     /\ ~main.dist.traversals_run

\* C21 witness: a sink at distance 2 under a given weight of 3 and above
C21_Witness ==
    /\ main.pc = "returned"
    /\ main.dist.source_sink_dist = 2
    /\ main.dist.adjusted_max_path_weight = 3
    /\ main.dist.traversals_run

\* the test tiles the dispatcher lists in the phase of the run, in order
TilesOfPhase ==
    SelectSeq(test_tile_coords,
              LAMBDA tile : ~(main.topological_mode = PROBABILITY /\ analyze_core
                              /\ outside_core(tile)))

\* the nodes a tile gives rise to: the SOURCE of each DRIVER class, or the IPIN of
\* each pin of each RECEIVER class, in the order of the classes and pins
RECURSIVE NodesOfTile(_, _, _)
NodesOfTile(tile, type, iclass) ==
    IF iclass \notin DOMAIN class_inf THEN <<>>
    ELSE (IF type = "SOURCE" /\ class_inf[iclass].pin_type = "DRIVER"
          THEN <<rr_node_index("SOURCE", tile[1], tile[2], iclass)>>
          ELSE IF type = "IPIN" /\ class_inf[iclass].pin_type = "RECEIVER"
          THEN [i \in 1..Len(class_inf[iclass].pinlist) |->
                   rr_node_index("IPIN", tile[1], tile[2], class_inf[iclass].pinlist[i])]
          ELSE <<>>)
         \o NodesOfTile(tile, type, iclass + 1)

\* the items of a type the dispatcher generates, in order: <<node, tile>>
RECURSIVE GeneratedItems(_, _)
GeneratedItems(type, it) ==
    IF it > Len(TilesOfPhase) THEN <<>>
    ELSE [i \in 1..Len(NodesOfTile(TilesOfPhase[it], type, 0)) |->
             <<NodesOfTile(TilesOfPhase[it], type, 0)[i], TilesOfPhase[it]>>]
         \o GeneratedItems(type, it + 1)

\* the items of a type on the list of thread t, in order
ItemsOfThread(t, type) ==
    SelectSeq([i \in 1..Len(thread_conn_info[t].source_node_inds) |->
                  <<thread_conn_info[t].source_node_inds[i],
                    thread_conn_info[t].tile_coords[i]>>],
              LAMBDA item : rr_type[item[1]] = type)

\* every NumThreads-th of the generated items, from item t on
DealtTo(t, items) ==
    [j \in 1..Cardinality({k \in 0..(Len(items) - 1) : k % NumThreads = t}) |->
        items[(j - 1) * NumThreads + t + 1]]

\* C22: once the work lists are built, the lists hold the generated items and
\* nothing else, each item on one list: the driver items are dealt to the threads
\* in turn from thread 0 on, the receiver items likewise by a counter of their
\* own, so that the numbers of driver items of two threads differ by at most 1
\* and so do their numbers of receiver items.
C22_ItemsDealtByTwoCounters ==
    Dispatched
        => /\ \A t \in Threads :
                 /\ ItemsOfThread(t, "SOURCE") = DealtTo(t, GeneratedItems("SOURCE", 1))
                 /\ ItemsOfThread(t, "IPIN") = DealtTo(t, GeneratedItems("IPIN", 1))
                 /\ Len(thread_conn_info[t].source_node_inds)
                        = Len(ItemsOfThread(t, "SOURCE")) + Len(ItemsOfThread(t, "IPIN"))
                 /\ Len(thread_conn_info[t].tile_coords)
                        = Len(thread_conn_info[t].source_node_inds)
           /\ \A t, u \in Threads :
                 /\ Abs(Len(ItemsOfThread(t, "SOURCE")) - Len(ItemsOfThread(u, "SOURCE"))) <= 1
                 /\ Abs(Len(ItemsOfThread(t, "IPIN")) - Len(ItemsOfThread(u, "IPIN"))) <= 1

\* C22 witness: the lists are built and two threads have a driver item and a
\* receiver item each
C22_Witness ==
    /\ main.pc = "create"
    /\ \E t, u \in Threads :
          /\ t # u
          /\ \A v \in {t, u} :
                /\ Len(ItemsOfThread(v, "SOURCE")) = 1
                /\ Len(ItemsOfThread(v, "IPIN")) = 1

\* the offsets at Manhattan distance exactly length
OffsetsAtLength(length) ==
    {o \in ((-length)..length) \X ((-length)..length) : Abs(o[1]) + Abs(o[2]) = length}

\* C23: the destination loop ends having visited every offset (dx, dy) with
\* |dx| + |dy| equal to the length once, 4 times the length offsets in all, and
\* no other; the destinations analyzed and the connections counted are those of
\* the visited offsets that fall strictly inside the grid.
C23_LoopVisitsOffsetsAtLengthOnce ==
    main.pc = "returned"
        => /\ SeqRange(main.dest.offsets) = OffsetsAtLength(main.dest.length)
           /\ Len(main.dest.offsets) = 4 * main.dest.length
           /\ main.dest.included
                  = SelectSeq([i \in 1..Len(main.dest.offsets) |->
                                  <<main.dest.tile[1] + main.dest.offsets[i][1],
                                    main.dest.tile[2] + main.dest.offsets[i][2]>>],
                              LAMBDA t : t \in InteriorOf(main.dest.grid.size_x,
                                                          main.dest.grid.size_y))
           /\ main.dest.num_conns = Len(main.dest.included) * get_num_receivers

\* C23 witness: the loop for length 2 visited 8 offsets, the offsets (0, -2) and
\* (0, 2) and the offset (2, 0) among them
C23_Witness ==
    /\ main.pc = "returned"
    /\ main.dest.length = 2
    /\ Len(main.dest.offsets) = 8
    /\ {<<0, -2>>, <<0, 2>>, <<2, 0>>} \subseteq SeqRange(main.dest.offsets)

(***************************************************************************)
(* A run of increment_probability_metric alone: two workers, each about to *)
(* add the scaled probability of one connection, on queues of a capacity   *)
(* that can hold the entries of a connection                              *)
(***************************************************************************)
MaxLimit == 6

ProbabilityIncrements == {0, ProbUnit \div 2, ProbUnit}

\* the connections of length 0 and 1 from a SOURCE node to the SINK node of the
\* other tile
MetricConns ==
    {[source_node_ind |-> src, sink_node_ind |-> snk, conn_length |-> len,
      number_conns_at_length |-> 10] :
        src \in {n \in Nodes : rr_type[n] = "SOURCE"},
        snk \in {n \in Nodes : rr_type[n] = "SINK"},
        len \in 0..max_connection_length} \
    {conn \in [source_node_ind : Nodes, sink_node_ind : Nodes,
               conn_length : 0..max_connection_length, number_conns_at_length : {10}] :
        conn.sink_node_ind = conn.source_node_ind + 1}

InitMetric ==
    /\ OneSetting
    /\ demand = [n \in Nodes |-> 0]
    /\ path_count_history = [n \in Nodes |-> [e \in Nodes |-> 0]]
    /\ demand_lock = [n \in Nodes |-> Unlocked]
    /\ thread_conn_info = [t \in Threads |-> Conn_Info]
    /\ arena = [t \in Threads |-> FreshArena]
    /\ failed = "none"
    /\ printed = <<>>
    /\ observed = NothingObserved
    /\ call_log = NoCalls
    /\ main = MainAt("join", <<>>, <<>>)
    /\ \E limit \in 0..MaxLimit, held \in 0..1 :
          f_analysis_results =
              [Analysis_Results EXCEPT
                  !.lowest_probs_pqs =
                      [ilen \in 1..(max_connection_length + 1) |->
                          [limit |-> limit,
                           entries |-> IF held = 1 /\ limit > 0
                                       THEN <<ProbUnit \div 8>> ELSE <<>>]]]
    /\ \E conns \in [Threads -> MetricConns], incs \in [Threads -> ProbabilityIncrements] :
          worker = [t \in Threads |->
                       [IdleWorker EXCEPT !.pc = "lock_total_prob",
                                          !.topological_mode = PROBABILITY,
                                          !.conn = conns[t],
                                          !.probability_increment = incs[t]]]

NextMetric == \E t \in Threads : LockTotalProb(t) \/ WriteTotalProb(t)

SpecMetric == InitMetric /\ [][NextMetric]_vars

\* the k smallest of the values of q, with their multiplicities, are the
\* values of entries
SmallestOf(entries, q, k) ==
    /\ \A i \in 1..(Len(entries) - 1) : entries[i] <= entries[i + 1]
    /\ \A v \in SeqRange(q) \cup SeqRange(entries) :
          Occurrences(entries, v)
              = Min(Occurrences(q, v), Max(0, k - EntriesBelow(q, v)))

\* worker t leaves increment_probability_metric in this step
IncrementsMetric(t) ==
    /\ worker[t].pc = "write_total_prob"
    /\ worker'[t].pc = "lock_max_possible"

\* C24: increment_probability_metric adds the scaled probability of the
\* connection once to total_prob and pushes num_sources * num_sinks entries,
\* each the scaled probability divided by that number, on the queue of the
\* length of the connection (which keeps the smallest up to its capacity), and
\* leaves the queue of every other length as it was.
C24_IncrementAddsOnceAndPushesPerPinPair ==
    [][\A t \in Threads :
          IncrementsMetric(t) =>
              LET w == worker[t]
                  pairs == get_num_pins(ptc_num[w.conn.source_node_ind])
                               * get_num_pins(ptc_num[w.conn.sink_node_ind])
                  ilen == w.conn.conn_length + 1
                  was == f_analysis_results.lowest_probs_pqs
                  now == f_analysis_results'.lowest_probs_pqs
              IN  /\ f_analysis_results'.total_prob
                         = f_analysis_results.total_prob + w.probability_increment
                  /\ SmallestOf(now[ilen].entries,
                                was[ilen].entries
                                    \o [i \in 1..pairs |-> w.probability_increment \div pairs],
                                was[ilen].limit)
                  /\ \A other \in (1..Len(was)) \ {ilen} : now[other] = was[other]]_vars

\* C24 witness: both workers are through, one with a connection of length 0
\* and one of length 1; the queue of length 1 holds the five entries of the
\* connection of length 1 and the queue of length 0 the five of the other
C24_Witness ==
    /\ \A t \in Threads : worker[t].pc = "lock_max_possible"
    /\ worker[0].conn.conn_length = 1
    /\ worker[0].probability_increment = ProbUnit
    /\ worker[1].conn.conn_length = 0
    /\ worker[1].probability_increment = ProbUnit \div 2
    /\ f_analysis_results.total_prob = ProbUnit + ProbUnit \div 2
    /\ f_analysis_results.lowest_probs_pqs[2].entries = [i \in 1..5 |-> ProbUnit \div 5]
    /\ f_analysis_results.lowest_probs_pqs[1].entries = [i \in 1..5 |-> ProbUnit \div 10]

\* the nodes the backward pass has marked, each at the weight it is pushed with
BackwardVisited == {n \in Nodes : arena[0].ss[n].visited_from_sink}

\* C25: every node a pass of set_node_distances marks and pushes, forward or
\* backward, is pushed with a weight of at most the maximum path weight the
\* queue was constructed with, so that no push is refused.
C25_EveryPushWithinWeight ==
    InDistanceRun
        => /\ \A n \in ForwardVisited :
                 arena[0].ss[n].source_distance <= max_path_weight_setting
           /\ \A n \in BackwardVisited :
                 arena[0].ss[n].sink_distance <= max_path_weight_setting
           /\ failed # "pq_push"

\* the source and the sink of the run have the same weight
EqualEndWeights ==
    rr_weight[main.dist.source_node_ind] = rr_weight[main.dist.sink_node_ind]

\* C26: when the source and the sink have the same weight, the run never ends
\* in the distance-mismatch error, and once both passes have returned the
\* source_distance of the sink and the sink_distance of the source are the
\* same: both UNDEFINED, or the same distance.
C26_EqualEndWeightsGiveEqualDistances ==
    (InDistanceRun /\ EqualEndWeights)
        => /\ failed # "dist_mismatch"
           /\ main.pc \in {"adjust", "returned"}
                 => arena[0].ss[main.dist.sink_node_ind].source_distance
                        = arena[0].ss[main.dist.source_node_ind].sink_distance

\* C26 witness: both ends of weight 1, the distances were compared and are
\* defined, and the backward pass left out a node the forward pass visited
C26_Witness ==
    /\ main.pc = "returned"
    /\ rr_weight[main.dist.source_node_ind] = 1
    /\ rr_weight[main.dist.sink_node_ind] = 1
    /\ arena[0].ss[main.dist.sink_node_ind].source_distance > 1
    /\ arena[0].ss[main.dist.source_node_ind].sink_distance > 1
    /\ ForwardVisited \ BackwardVisited # {}

(***************************************************************************)
(* A run of the distance passes as enumerate_connection_paths makes them:  *)
(* the forward and the backward pass, then                                 *)
(* get_ss_distances_and_adjust_max_path_weight, which makes both passes    *)
(* again on the same distances                                             *)
(***************************************************************************)
\* get_ss_distances_and_adjust_max_path_weight, called after the two passes of
\* enumerate_connection_paths on the distances they left
GetSsDistancesAfterPasses ==
    /\ failed = "none"
    /\ main.pc = "adjust"
    /\ LET st == get_ss_distances_and_adjust_max_path_weight(
                     PassState(arena[0]), main.dist.source_node_ind,
                     main.dist.sink_node_ind, max_path_weight_setting, rr_weight)
       IN  /\ arena' = ArenaAfter(st)
           /\ IF st.err # "none"
              THEN Throw(st.err) /\ UNCHANGED main
              ELSE /\ main' = [main EXCEPT
                                  !.pc = "returned",
                                  !.dist.adjusted_max_path_weight = st.max_path_weight,
                                  !.dist.source_sink_dist = st.min_dist,
                                  !.dist.traversals_run =
                                      traversals_run(st.max_path_weight, st.min_dist)]
                   /\ UNCHANGED failed
    /\ UNCHANGED <<config, call_log, demand, path_count_history, demand_lock,
                   thread_conn_info, f_analysis_results, worker, printed, observed>>

NextPasses ==
    \/ SetNodeDistancesForward
    \/ SetNodeDistancesBackward
    \/ GetSsDistancesAfterPasses

SpecPasses == InitDistances /\ [][NextPasses]_vars

\* C27: the forward and the backward pass made again on the distances the first
\* pair left, for the same source, sink and maximum path weight, leave the
\* source_distance, the sink_distance and the visited flags of every node as
\* they were, whether or not the comparison after them throws.
C27_RepeatedPassesLeaveDistances ==
    [][main.pc = "adjust"
          => \A n \in Nodes :
                /\ arena'[0].ss[n].source_distance = arena[0].ss[n].source_distance
                /\ arena'[0].ss[n].sink_distance = arena[0].ss[n].sink_distance
                /\ arena'[0].ss[n].visited_from_source = arena[0].ss[n].visited_from_source
                /\ arena'[0].ss[n].visited_from_sink = arena[0].ss[n].visited_from_sink]_vars

\* C27 witness: the passes were made twice (the second pair popped the source
\* and the sink again), and a child of the source that the forward pass marked
\* is not marked by the backward pass
C27_Witness ==
    /\ main.pc = "returned"
    /\ Len(arena[0].nodes_visited) > main.dist.forward_visited + 2
    /\ arena[0].nodes_visited[Len(arena[0].nodes_visited)] = main.dist.sink_node_ind
    /\ arena[0].nodes_visited[Len(arena[0].nodes_visited) - 1] = main.dist.source_node_ind
    /\ \E i \in 1..Len(out_edges[main.dist.source_node_ind]) :
          /\ arena[0].ss[out_edges[main.dist.source_node_ind][i]].visited_from_source
          /\ ~arena[0].ss[out_edges[main.dist.source_node_ind][i]].visited_from_sink

\* the entries the forward and the backward pass appended to nodes_visited
ForwardAppended == SubSeq(arena[0].nodes_visited, 1, main.dist.forward_visited)
BackwardAppended ==
    SubSeq(arena[0].nodes_visited, main.dist.forward_visited + 1, Len(arena[0].nodes_visited))

\* no node is twice in the sequence q
NoNodeTwice(q) == \A i, j \in 1..Len(q) : q[i] = q[j] => i = j

\* C28: a pass of set_node_distances that has returned popped every node at most
\* once, so at most as many nodes as there are; it appended every node at most
\* once to nodes_visited, and the nodes it left marked are the nodes it appended.
C28_PassPopsEachNodeOnce ==
    /\ (InDistanceRun /\ main.pc # "forward")
          => /\ NoNodeTwice(ForwardAppended)
             /\ Len(ForwardAppended) <= Cardinality(Nodes)
             /\ ForwardVisited = SeqRange(ForwardAppended)
    /\ (InDistanceRun /\ main.pc \in {"adjust", "returned"})
          => /\ NoNodeTwice(BackwardAppended)
             /\ Len(BackwardAppended) <= Cardinality(Nodes)
             /\ BackwardVisited = SeqRange(BackwardAppended)

\* C28 witness: both passes returned; the forward pass popped six nodes, the
\* backward pass fewer, having un-marked a child that was not legal
C28_Witness ==
    /\ main.pc = "adjust"
    /\ Len(ForwardAppended) >= 6
    /\ Len(BackwardAppended) \in 3..5
    /\ \E n \in BackwardChildren : n \in ForwardVisited \ BackwardVisited

(***************************************************************************)
(* A run of analyze_simple_graph on a node list of up to MaxSimpleNodes    *)
(* nodes.  The traversals are the calls it makes, recorded with the source *)
(* and the sink they are given.                                            *)
(***************************************************************************)
MaxSimpleNodes == 4

SimpleNodeTypes == {"SOURCE", "SINK", "IPIN", "CHANX"}

\* the loop of analyze_simple_graph over the nodes from inode on:
\* [source_node_ind, sink_node_ind, err]
RECURSIVE find_source_and_sink(_, _, _)
find_source_and_sink(rr_node, inode, found) ==
    IF inode > Len(rr_node) \/ found.err # "none" THEN found
    ELSE LET node_type == rr_node[inode].rr_type
         IN  IF node_type = "SOURCE"
             THEN IF found.source_node_ind = UNDEFINED
                  THEN find_source_and_sink(rr_node, inode + 1,
                                            [found EXCEPT !.source_node_ind = inode])
                  ELSE [found EXCEPT !.err = "more_than_one_source"]
             ELSE IF node_type = "SINK"
             THEN IF found.sink_node_ind = UNDEFINED
                  THEN find_source_and_sink(rr_node, inode + 1,
                                            [found EXCEPT !.sink_node_ind = inode])
                  ELSE [found EXCEPT !.err = "more_than_one_sink"]
             ELSE find_source_and_sink(rr_node, inode + 1, found)

\* the locals of analyze_simple_graph before its loop, and the calls made
NoEndsFound == [source_node_ind |-> UNDEFINED, sink_node_ind |-> UNDEFINED, err |-> "none"]

InitSimpleGraph ==
    /\ OneSetting
    /\ Constructed
    /\ \E num_rr_nodes \in 0..MaxSimpleNodes :
          \E types \in [1..num_rr_nodes -> SimpleNodeTypes] :
             main = [MainAt("find_source_and_sink", <<>>,
                            [inode \in 1..num_rr_nodes |->
                                [rr_type |-> types[inode], demand |-> 0]])
                        EXCEPT !.dist = [source_node_ind |-> UNDEFINED,
                                         sink_node_ind |-> UNDEFINED,
                                         calls |-> <<>>]]

\* analyze_simple_graph: the loop that finds the source and the sink
FindSourceAndSink ==
    /\ failed = "none"
    /\ main.pc = "find_source_and_sink"
    /\ LET found == find_source_and_sink(main.rr_node, 1, NoEndsFound)
       IN  IF found.err # "none"
           THEN Throw(found.err) /\ UNCHANGED main
           ELSE /\ main' = [main EXCEPT !.pc = "enumerate",
                                        !.dist.source_node_ind = found.source_node_ind,
                                        !.dist.sink_node_ind = found.sink_node_ind]
                /\ UNCHANGED failed
    /\ UNCHANGED <<config, call_log, demand, path_count_history, demand_lock,
                   thread_conn_info, f_analysis_results, arena, worker, printed, observed>>

\* what a call given these ends can end in: set_node_distances indexes
\* ss_distances with them, with UNDEFINED out of bounds, and the call returns or
\* the process is ended
TraversalOutcomes(source_node_ind, sink_node_ind) ==
    IF source_node_ind = UNDEFINED \/ sink_node_ind = UNDEFINED
    THEN {"none", "segmentation_fault"}
    ELSE {"none"}

\* a call of a traversal of the simple graph, which moves on to pc then
SimpleGraphCall(at, callee, then) ==
    /\ failed = "none"
    /\ main.pc = at
    /\ \E outcome \in TraversalOutcomes(main.dist.source_node_ind, main.dist.sink_node_ind) :
          /\ failed' = outcome
          /\ main' = [main EXCEPT
                          !.pc = IF outcome = "none" THEN then ELSE at,
                          !.dist.calls =
                              Append(@, [callee |-> callee,
                                         source_node_ind |-> main.dist.source_node_ind,
                                         sink_node_ind |-> main.dist.sink_node_ind])]
    /\ UNCHANGED <<config, call_log, demand, path_count_history, demand_lock,
                   thread_conn_info, f_analysis_results, arena, worker, printed, observed>>

\* analyze_simple_graph: the call of enumerate_connection_paths
EnumerateSimpleGraph ==
    SimpleGraphCall("enumerate", "enumerate_connection_paths", "estimate")

\* analyze_simple_graph: the call of estimate_connection_probability
EstimateSimpleGraph ==
    SimpleGraphCall("estimate", "estimate_connection_probability", "returned")

NextSimpleGraph == FindSourceAndSink \/ EnumerateSimpleGraph \/ EstimateSimpleGraph

SpecSimpleGraph == InitSimpleGraph /\ [][NextSimpleGraph]_vars

\* the nodes of the type in the node list of the run
NodesOfType(type) == {inode \in 1..Len(main.rr_node) : main.rr_node[inode].rr_type = type}

\* C30: every call of enumerate_connection_paths and of
\* estimate_connection_probability that analyze_simple_graph makes is given a
\* defined source and a defined sink, and no call is made on a graph that does
\* not have exactly one SOURCE and exactly one SINK.
C30_TraversalsGetDefinedEnds ==
    main.pc \in {"find_source_and_sink", "enumerate", "estimate", "returned"}
        => /\ \A i \in 1..Len(main.dist.calls) :
                 /\ main.dist.calls[i].source_node_ind # UNDEFINED
                 /\ main.dist.calls[i].sink_node_ind # UNDEFINED
           /\ (Cardinality(NodesOfType("SOURCE")) # 1 \/ Cardinality(NodesOfType("SINK")) # 1)
                 => main.dist.calls = <<>>

====
